---- MODULE Spec2Model ----
(***************************************************************************)
(* A model of imap/jmap_ical.c, the converter between JSCalendar events    *)
(* (JSON) and iCalendar VEVENTs of the Cyrus JMAP calendar service.        *)
(*                                                                         *)
(* The converter is a set of pure functions over two trees.  Each entry    *)
(* point (jmapical_tojmap_all, jmapical_tojmap, jmapical_toical) is one    *)
(* action; its argument is drawn by the initial predicate from a bounded   *)
(* set of trees, and the action stores what the C function returns.        *)
(*                                                                         *)
(* Data representation.  Every value that the C code can test for its      *)
(* type, or compare with a NULL pointer, is a record whose field names     *)
(* say what it is:                                                         *)
(*    [nil |-> TRUE]   the C NULL pointer                                  *)
(*    [null |-> TRUE]  json_null()                                         *)
(*    [s |-> "x"]      a JSON string, also a non-NULL char*                *)
(*    [i |-> 3]        a JSON integer        [b |-> TRUE]  a JSON boolean  *)
(*    [o |-> f]        a JSON object, f a function from keys to values     *)
(*    [a |-> q]        a JSON array, q a sequence of values                *)
(* A JSON object is iterated in the order of json_object_keys, which is    *)
(* one fixed order of its keys; the input sets contain every assignment of *)
(* values to keys, so both orders of two entries are covered.              *)
(***************************************************************************)
EXTENDS Integers, Sequences, FiniteSets, TLC

VARIABLES
    pc,         \* position of the caller: which entry point has returned
    obj,        \* the JSCalendar event that is the argument of jmapical_toical
    vcalendar,  \* the VCALENDAR tree: argument of to_jmap, result of to_ical
    jsevent,    \* the JSCalendar event returned by jmapical_tojmap
    jsevents,   \* the array returned by jmapical_tojmap_all
    jerr,       \* the caller's jmapical_err_t: [code, props]
    context,    \* the conversion context as it is just before context_free
    jprops,     \* the wantProps object that to_jmap was called with
    obj_out,    \* the tree of obj as jmapical_toical leaves it
    loop        \* the PARTSTAT loop of participant_from_ical while it runs

vars ==
    <<pc, obj, vcalendar, jsevent, jsevents, jerr, context, jprops, obj_out,
      loop>>

----------------------------------------------------------------------------
(* JSON values (jansson)                                                   *)

NULL == [nil |-> TRUE]

json_null == [null |-> TRUE]

json_string(s) == [s |-> s]

json_integer(i) == [i |-> i]

json_boolean(b) == [b |-> b]

json_true == [b |-> TRUE]

json_false == [b |-> FALSE]

json_object(f) == [o |-> f]

json_array(q) == [a |-> q]

json_is_null(j) == "null" \in DOMAIN j

json_is_string(j) == "s" \in DOMAIN j

json_is_integer(j) == "i" \in DOMAIN j

json_is_boolean(j) == "b" \in DOMAIN j

json_is_object(j) == "o" \in DOMAIN j

json_is_array(j) == "a" \in DOMAIN j

\* JNOTNULL(item): ((item) ? (json_is_null(item) == 0) : 0)
JNOTNULL(j) == j # NULL /\ ~json_is_null(j)

\* json_integer_value: 0 for anything that is not an integer
json_integer_value(j) == IF json_is_integer(j) THEN j.i ELSE 0

\* json_string_value: the string itself, NULL for anything else
json_string_value(j) == IF json_is_string(j) THEN j ELSE NULL

json_object_get(j, k) ==
    IF json_is_object(j) /\ k \in DOMAIN j.o THEN j.o[k] ELSE NULL

json_object_set(j, k, v) ==
    [o |-> [x \in (DOMAIN j.o) \cup {k} |-> IF x = k THEN v ELSE j.o[x]]]

json_object_del(j, k) == [o |-> [x \in (DOMAIN j.o) \ {k} |-> j.o[x]]]

json_object_size(j) == IF json_is_object(j) THEN Cardinality(DOMAIN j.o) ELSE 0

json_object_update(j, other) ==
    [o |-> [x \in (DOMAIN j.o) \cup (DOMAIN other.o) |->
               IF x \in DOMAIN other.o THEN other.o[x] ELSE j.o[x]]]

json_array_size(j) == IF json_is_array(j) THEN Len(j.a) ELSE 0

\* the element of a set of at most one, NULL for the empty set
TheOne(S) == IF S = {} THEN NULL ELSE CHOOSE x \in S : TRUE

\* f(v), with v evaluated before f is applied to it: the statements of a
\* function run one after the other
Then(v, f(_)) == TheOne({f(x) : x \in {v}})

RECURSIVE SetToSeq(_)
SetToSeq(S) ==
    IF S = {} THEN <<>>
    ELSE LET k == CHOOSE x \in S : TRUE IN <<k>> \o SetToSeq(S \ {k})

\* json_object_foreach visits the keys of an object in the order in which
\* they were set.  Where that order matters, the objects of the input
\* universe are built in the order of KeyOrder.
KeyOrder ==
    <<"imip", "web", "other", "owner", "attendee", "chair",
      "2020-01-08T09:00:00", "2020-01-08T10:30:00", "not-a-date",
      "o1", "p1", "p2", "p3", "l1", "l2", "loc1", "loc2", "end1",
      "v1", "v2">>

json_object_keys(j) ==
    IF json_is_object(j)
    THEN SelectSeq(KeyOrder, LAMBDA k : k \in DOMAIN j.o)
         \o SetToSeq({k \in DOMAIN j.o : \A i \in DOMAIN KeyOrder : KeyOrder[i] # k})
    ELSE <<>>

----------------------------------------------------------------------------
(* iCalendar trees (libical)                                               *)
(* A component is [kind, props, comps]; a property is [name, val, params]  *)
(* with params a sequence of [name, value], both strings.                  *)

icalcomponent_new(kind) == [kind |-> kind, props |-> <<>>, comps |-> <<>>]

icalproperty_new(name, val) == [name |-> name, val |-> val, params |-> <<>>]

icalproperty_add_parameter(prop, name, value) ==
    [prop EXCEPT !.params = Append(@, [name |-> name, value |-> value])]

\* the values of the parameters of that name, in parameter order
icalproperty_get_parameters(prop, name) ==
    LET ps == SelectSeq(prop.params, LAMBDA p : p.name = name)
    IN [i \in 1..Len(ps) |-> ps[i].value]

\* the first such parameter's value as a char*, NULL when there is none
icalproperty_get_first_parameter(prop, name) ==
    LET first(vs) == IF vs = <<>> THEN NULL ELSE json_string(Head(vs))
    IN first(icalproperty_get_parameters(prop, name))

get_icalxparam_value(prop, name) == icalproperty_get_first_parameter(prop, name)

remove_icalxparam(prop, name) ==
    [prop EXCEPT !.params = SelectSeq(@, LAMBDA p : p.name # name)]

set_icalxparam(prop, name, val, purge) ==
    icalproperty_add_parameter(
        IF purge THEN remove_icalxparam(prop, name) ELSE prop, name, val)

icalcomponent_add_property(comp, prop) ==
    [comp EXCEPT !.props = Append(@, prop)]

icalcomponent_add_component(comp, child) ==
    [comp EXCEPT !.comps = Append(@, child)]

icalcomponent_get_properties(comp, name) ==
    SelectSeq(comp.props, LAMBDA p : p.name = name)

icalcomponent_get_first_property(comp, name) ==
    LET first(ps) == IF ps = <<>> THEN NULL ELSE Head(ps)
    IN first(icalcomponent_get_properties(comp, name))

icalcomponent_count_properties(comp, name) ==
    Len(icalcomponent_get_properties(comp, name))

remove_icalprop(comp, name) ==
    [comp EXCEPT !.props = SelectSeq(@, LAMBDA p : p.name # name)]

\* the positions of the sub-components of a kind, in component order
icalcomponent_get_components(comp, kind) ==
    SelectSeq([i \in 1..Len(comp.comps) |-> i],
              LAMBDA i : comp.comps[i].kind = kind)

\* the text value of the first property of that name, NULL when absent
icalcomponent_get_text(comp, name) ==
    LET text(prop) == IF prop = NULL THEN NULL ELSE prop.val
    IN text(icalcomponent_get_first_property(comp, name))

icalcomponent_get_uid(comp) == icalcomponent_get_text(comp, "UID")

----------------------------------------------------------------------------
(* Times, time zones and durations                                         *)
(* An icaltimetype is its broken-down fields.  A time zone pointer is NULL *)
(* or [tzid |-> location].  An icaldurationtype is [secs, hms, bad]: its   *)
(* length in seconds, whether one of its hour, minute and second fields is *)
(* set, and whether it is the bad duration.                                *)

icaltime(y, mo, d, h, mi, s, is_date, is_utc) ==
    [year |-> y, month |-> mo, day |-> d, hour |-> h, minute |-> mi,
     second |-> s, is_date |-> is_date, is_utc |-> is_utc]

icaltime_null_time == icaltime(0, 0, 0, 0, 0, 0, FALSE, FALSE)

icaltime_is_null_time(t) ==
    t.year = 0 /\ t.month = 0 /\ t.day = 0
    /\ t.hour = 0 /\ t.minute = 0 /\ t.second = 0

Digits == <<"0", "1", "2", "3", "4", "5", "6", "7", "8", "9">>

Fmt2(n) == Digits[(n \div 10) + 1] \o Digits[(n % 10) + 1]

Fmt4(n) == Fmt2(n \div 100) \o Fmt2(n % 100)

\* icaltime_as_timet: the zone is ignored; the null time is the epoch
icaltime_as_timet(t) ==
    IF icaltime_is_null_time(t)
    THEN [year |-> 1970, month |-> 1, day |-> 1,
          hour |-> 0, minute |-> 0, second |-> 0]
    ELSE [year |-> t.year, month |-> t.month, day |-> t.day,
          hour |-> IF t.is_date THEN 0 ELSE t.hour,
          minute |-> IF t.is_date THEN 0 ELSE t.minute,
          second |-> IF t.is_date THEN 0 ELSE t.second]

\* what time_to_rfc3339 prints before its final "Z"
timet_to_localdate(t) ==
    Fmt4(t.year) \o "-" \o Fmt2(t.month) \o "-" \o Fmt2(t.day) \o "T"
    \o Fmt2(t.hour) \o ":" \o Fmt2(t.minute) \o ":" \o Fmt2(t.second)

time_to_rfc3339(t) == timet_to_localdate(t) \o "Z"

localdate_from_icaltime_r(t) == timet_to_localdate(icaltime_as_timet(t))

utcdate_from_icaltime_r(t) == time_to_rfc3339(icaltime_as_timet(t))

\* The strings of the input universe that strptime("%Y-%m-%dT%H:%M:%S")
\* consumes completely, each with the struct tm it fills in.  %m, %d and %H
\* accept one digit, so a LocalDate need not be zero-padded.
StrptimeTable ==
    { [str |-> "2020-01-01T09:00:00",
       tm |-> [year |-> 2020, month |-> 1, day |-> 1,
               hour |-> 9, minute |-> 0, second |-> 0]],
      [str |-> "2020-1-1T9:00:00",
       tm |-> [year |-> 2020, month |-> 1, day |-> 1,
               hour |-> 9, minute |-> 0, second |-> 0]],
      [str |-> "2020-01-08T09:00:00",
       tm |-> [year |-> 2020, month |-> 1, day |-> 8,
               hour |-> 9, minute |-> 0, second |-> 0]],
      [str |-> "2020-01-08T10:30:00",
       tm |-> [year |-> 2020, month |-> 1, day |-> 8,
               hour |-> 10, minute |-> 30, second |-> 0]],
      [str |-> "2020-01-01T00:00:00",
       tm |-> [year |-> 2020, month |-> 1, day |-> 1,
               hour |-> 0, minute |-> 0, second |-> 0]],
      [str |-> "2020-01-08T00:00:00",
       tm |-> [year |-> 2020, month |-> 1, day |-> 8,
               hour |-> 0, minute |-> 0, second |-> 0]],
      [str |-> "2020-02-01T09:00:00",
       tm |-> [year |-> 2020, month |-> 2, day |-> 1,
               hour |-> 9, minute |-> 0, second |-> 0]],
      [str |-> "2020-02-01T00:00:00",
       tm |-> [year |-> 2020, month |-> 2, day |-> 1,
               hour |-> 0, minute |-> 0, second |-> 0]] }

\* the struct tm, or NULL where the C function returns 0
localdate_to_tm(buf) ==
    LET tm(e) == IF e = NULL THEN NULL ELSE e.tm
    IN tm(TheOne({e \in StrptimeTable : e.str = buf}))

icaltimezone_get_utc_timezone == [tzid |-> "UTC"]

\* the zones of the time zone database
BuiltinTimezones == {"Europe/Vienna", "America/New_York"}

icaltimezone_get_builtin_timezone(tzid) ==
    IF tzid \in BuiltinTimezones THEN [tzid |-> tzid] ELSE NULL

icaltimezone_get_location(tz) == tz.tzid

tz_from_tzid(tzid) ==
    IF tzid = NULL THEN NULL
    ELSE IF tzid.s = "Etc/UTC" \/ tzid.s = "UTC"
         THEN icaltimezone_get_utc_timezone
         ELSE icaltimezone_get_builtin_timezone(tzid.s)

\* the offset of a zone from UTC in January, in seconds
UtcOffset(tz) ==
    CASE tz.tzid = "Europe/Vienna" -> 3600
      [] tz.tzid = "America/New_York" -> 0 - 18000
      [] OTHER -> 0

\* the icaltimetype, or NULL where the C function returns 0
localdate_to_icaltime(buf, tz, is_allday) ==
    LET time(tm) ==
            IF tm = NULL THEN NULL
            ELSE IF is_allday /\ (tm.second # 0 \/ tm.minute # 0 \/ tm.hour # 0)
                 THEN NULL
                 ELSE icaltime(tm.year, tm.month, tm.day,
                               tm.hour, tm.minute, tm.second,
                               is_allday /\ tz = NULL,
                               tz = icaltimezone_get_utc_timezone)
    IN time(localdate_to_tm(buf))

\* The duration strings of the input universe that
\* icaldurationtype_from_string accepts; every other string is bad.
DurationTable ==
    { [str |-> "PT0S", secs |-> 0, hms |-> FALSE],
      [str |-> "PT15M", secs |-> 900, hms |-> TRUE],
      [str |-> "PT1H", secs |-> 3600, hms |-> TRUE],
      [str |-> "PT60M", secs |-> 3600, hms |-> TRUE],
      [str |-> "P1D", secs |-> 86400, hms |-> FALSE],
      [str |-> "PT24H", secs |-> 86400, hms |-> TRUE] }

icaldurationtype_null_duration == [secs |-> 0, hms |-> FALSE, bad |-> FALSE]

icaldurationtype_bad_duration == [secs |-> 0, hms |-> FALSE, bad |-> TRUE]

icaldurationtype_is_bad_duration(dur) == dur.bad

icaldurationtype_from_string(str) ==
    LET dur(e) == IF e = NULL THEN icaldurationtype_bad_duration
                  ELSE [secs |-> e.secs, hms |-> e.hms, bad |-> FALSE]
    IN dur(TheOne({e \in DurationTable : e.str = str}))

\* the number n < 100 in decimal, as printf("%d") prints it
IntToStr(n) ==
    IF n < 10 THEN Digits[n + 1]
    ELSE Digits[(n \div 10) + 1] \o Digits[(n % 10) + 1]

\* icaldurationtype_as_ical_string(icaldurationtype_from_int(secs)), for a
\* length of less than a week
icaldurationtype_as_ical_string(secs) ==
    LET d == secs \div 86400
        h == (secs % 86400) \div 3600
        m == (secs % 3600) \div 60
        s == secs % 60
    IN IF secs = 0 THEN "PT0S"
       ELSE "P" \o (IF d > 0 THEN IntToStr(d) \o "D" ELSE "")
            \o (IF h + m + s > 0 THEN "T" ELSE "")
            \o (IF h > 0 THEN IntToStr(h) \o "H" ELSE "")
            \o (IF m > 0 THEN IntToStr(m) \o "M" ELSE "")
            \o (IF s > 0 THEN IntToStr(s) \o "S" ELSE "")

----------------------------------------------------------------------------
(* Calendar addresses                                                      *)
(* UriTable lists the strings of the input universe that contain a colon:  *)
(* the scheme in lower case, the rest from the colon on, and for a mailto  *)
(* URI the address that address_canonicalise returns.  A string that is    *)
(* not listed has no colon.                                                *)

\* the most ATTENDEEs of a VEVENT, and participants of an event
MaxAttendees == 3

AttendeeAddr(i) == "p" \o IntToStr(i) \o "@example.com"

AttendeeUri(i) == "mailto:" \o AttendeeAddr(i)

UriTable ==
    { [uri |-> "mailto:o@example.com", lscheme |-> "mailto",
       rest |-> ":o@example.com", addr |-> "o@example.com"],
      [uri |-> "MAILTO:o@example.com", lscheme |-> "mailto",
       rest |-> ":o@example.com", addr |-> "o@example.com"],
      [uri |-> "https://example.com/rsvp", lscheme |-> "https",
       rest |-> "://example.com/rsvp", addr |-> ""] }
    \cup { [uri |-> AttendeeUri(i), lscheme |-> "mailto",
            rest |-> ":" \o AttendeeAddr(i), addr |-> AttendeeAddr(i)] :
              i \in 1..MaxAttendees }

\* strchr(uri, ':') as the table entry, NULL when there is no colon
UriEntry(uri) == TheOne({e \in UriTable : e.uri = uri})

match_uri(uri1, uri2) ==
    LET match(col1, col2) ==
            IF col1 = NULL /\ col2 = NULL THEN uri1 = uri2
            ELSE IF col1 # NULL /\ col2 # NULL
                 THEN col1.lscheme = col2.lscheme /\ col1.rest = col2.rest
                 ELSE FALSE
    IN match(UriEntry(uri1), UriEntry(uri2))

\* char* in, char* out: NULL unless uri is a mailto URI
mailaddr_from_uri(uri) ==
    IF uri = NULL THEN NULL
    ELSE LET addr(col) == IF col = NULL \/ col.lscheme # "mailto" THEN NULL
                          ELSE json_string(col.addr)
         IN addr(UriEntry(uri.s))

normalized_uri(uri) ==
    LET norm(col) == IF col = NULL THEN uri ELSE col.lscheme \o col.rest
    IN norm(UriEntry(uri))

mailaddr_to_uri(addr) == "mailto:" \o addr

\* the hex digest of val: an injective function of val
sha1key(val) == "sha1-" \o val

\* the methods that an X-JMAP-RSVP-URI parameter of the universe can name
RsvpMethods == {"imip", "web", "other"}

\* An X-JMAP-RSVP-URI value is method:uri.  With fewer than two colons it
\* is a bare URI and counts as the "web" method.
rsvpto_param(val) ==
    LET param(kv) == IF kv = NULL THEN [key |-> "web", uri |-> val] ELSE kv
    IN param(TheOne({kv \in [key : RsvpMethods, uri : {e.uri : e \in UriTable}] :
                        val = kv.key \o ":" \o kv.uri}))

RECURSIVE rsvpto_params(_, _)
rsvpto_params(rsvpTo, vals) ==
    IF vals = <<>> THEN rsvpTo
    ELSE LET set(kv) == json_object_set(rsvpTo, kv.key, json_string(kv.uri))
         IN rsvpto_params(set(rsvpto_param(Head(vals))), Tail(vals))

rsvpto_from_ical(prop) ==
    LET caladdress == prop.val.s
        caladdress_is_defined(params) ==
            \E key \in DOMAIN params.o : match_uri(caladdress, params.o[key].s)
        is_mailto(col) == col # NULL /\ col.lscheme = "mailto"
        rsvpTo(params) ==
            IF caladdress_is_defined(params) THEN params
            ELSE json_object_set(params,
                                 IF is_mailto(UriEntry(caladdress))
                                 THEN "imip" ELSE "other",
                                 json_string(caladdress))
        result(j) == IF json_object_size(j) = 0 THEN json_null ELSE j
    IN result(rsvpTo(rsvpto_params(json_object(<<>>),
                  icalproperty_get_parameters(prop, "X-JMAP-RSVP-URI"))))

----------------------------------------------------------------------------
(* iCalendar to JSCalendar: participants                                   *)

\* lcase, on the strings of the input universe
lcase(s) ==
    IF s \in {e.uri : e \in UriTable} THEN normalized_uri(s)
    ELSE CASE s = "OWNER" -> "owner"
           [] s = "ATTENDEE" -> "attendee"
           [] s = "CHAIR" -> "chair"
           [] s = "REQUEST" -> "request"
           [] s = "TRUE" -> "true"
           [] s = "NONE" -> "none"
           [] s = "SNOOZE" -> "snooze"
           [] s = "DAILY" -> "daily"
           [] s = "WEEKLY" -> "weekly"
           [] s = "MONTHLY" -> "monthly"
           [] s = "YEARLY" -> "yearly"
           [] s = "MO" -> "mo"
           [] s = "TU" -> "tu"
           [] s = "SU" -> "su"
           [] s = "FORWARD" -> "forward"
           [] s = "BACKWARD" -> "backward"
           [] s = "OMIT" -> "omit"
           [] s = "GREGORIAN" -> "gregorian"
           [] OTHER -> s

\* strcasecmpsafe(a, b) == 0, a NULL pointer comparing as the empty string
strcasecmpsafe_eq(a, b) ==
    lcase(IF a = NULL THEN "" ELSE a.s) = lcase(IF b = NULL THEN "" ELSE b.s)

hash_lookup(key, table) == IF key \in DOMAIN table THEN table[key] ELSE NULL

\* the set of keys as a JSON object that maps each of them to true
json_true_set(keys) == json_object([k \in keys |-> json_true])

\* The depth after which the PARTSTAT loop gives up on a delegation chain.
MaxDelegateDepth == 64

\* A parameter that was made without a value has the field novalue:
\* icalparameter_get_delegatedto returns NULL for it.  Whether the first
\* DELEGATED-TO of the property is such a parameter.
delegatedto_is_null(prop) ==
    LET ps == SelectSeq(prop.params, LAMBDA p : p.name = "DELEGATED-TO")
    IN ps # <<>> /\ "novalue" \in DOMAIN Head(ps)

\* One pass through the body of the loop that determines
\* participationStatus.  l holds the loop's variables: partstat,
\* partstat_prop, depth, and brk, set when the loop was left by break.  A
\* pass on a loop that has ended changes nothing.
partstat_loop_body(prop, l, attendee_by_uri) ==
    IF l.brk \/ l.partstat # NULL THEN l
    ELSE
    LET param == icalproperty_get_first_parameter(l.partstat_prop, "PARTSTAT")
    IN IF param = NULL THEN [l EXCEPT !.brk = TRUE]
       ELSE CASE param.s = "ACCEPTED" ->
                   [l EXCEPT !.partstat = json_string("accepted")]
              [] param.s = "DECLINED" ->
                   [l EXCEPT !.partstat = json_string("declined")]
              [] param.s = "TENTATIVE" ->
                   [l EXCEPT !.partstat = json_string("tentative")]
              [] param.s = "NEEDS-ACTION" ->
                   [l EXCEPT !.partstat = json_string("needs-action")]
              [] param.s = "DELEGATED" ->
                   LET lookup(to) ==
                           IF to = NULL THEN NULL
                           ELSE hash_lookup(normalized_uri(to.s),
                                            attendee_by_uri)
                       follow(next) ==
                           IF next = NULL
                           THEN [l EXCEPT !.partstat = json_string("none")]
                           ELSE [partstat |-> IF l.depth + 1 > MaxDelegateDepth
                                              THEN json_string("none")
                                              ELSE NULL,
                                 partstat_prop |-> next,
                                 depth |-> l.depth + 1,
                                 brk |-> FALSE]
                   \* "if (!to) continue;"
                   IN IF delegatedto_is_null(prop) THEN l
                      ELSE follow(lookup(icalproperty_get_first_parameter(
                                             prop, "DELEGATED-TO")))
              [] OTHER -> [l EXCEPT !.partstat = json_string("none")]

\* n passes through the loop body, by halving
RECURSIVE partstat_loop(_, _, _, _)
partstat_loop(prop, l, n, attendee_by_uri) ==
    IF n = 0 \/ l.brk \/ l.partstat # NULL THEN l
    ELSE IF n = 1 THEN partstat_loop_body(prop, l, attendee_by_uri)
    ELSE partstat_loop(prop,
                       partstat_loop(prop, l, n \div 2, attendee_by_uri),
                       n - (n \div 2), attendee_by_uri)

\* The loop that determines participationStatus, entered with partstat
\* NULL, partstat_prop the attendee itself and depth 0.  It ends within
\* MaxDelegateDepth + 2 passes.  The result is the value of partstat when
\* the loop ends.
partstat_from_ical(prop, attendee_by_uri) ==
    partstat_loop(prop,
                  [partstat |-> NULL, partstat_prop |-> prop,
                   depth |-> 0, brk |-> FALSE],
                  MaxDelegateDepth + 2, attendee_by_uri).partstat

\* parsenum, on the numerals below one hundred; NULL when it fails
parsenum(str) ==
    LET num(n) == IF n = NULL THEN NULL ELSE json_integer(n.n)
    IN num(TheOne({[n |-> n] : n \in {m \in 0..99 : IntToStr(m) = str}}))

icaltime_as_ical_string(t) ==
    Fmt4(t.year) \o Fmt2(t.month) \o Fmt2(t.day)
    \o (IF t.is_date THEN ""
        ELSE "T" \o Fmt2(t.hour) \o Fmt2(t.minute) \o Fmt2(t.second)
             \o (IF t.is_utc THEN "Z" ELSE ""))

\* the times that a string of the input universe can denote
TimeUniverse ==
    { icaltime(e.tm.year, e.tm.month, e.tm.day,
               e.tm.hour, e.tm.minute, e.tm.second, d, u) :
        e \in StrptimeTable, d \in BOOLEAN, u \in BOOLEAN }

icaltime_from_string(str) ==
    LET time(t) == IF t = NULL THEN icaltime_null_time ELSE t
    IN time(TheOne({t \in TimeUniverse : icaltime_as_ical_string(t) = str}))

\* the ids that the URIs of the parameters of that name resolve to
participant_ids_from_ical(prop, name, id_by_uri) ==
    LET ids(uris) ==
            { id_by_uri[uri] :
                uri \in {normalized_uri(uris[i]) : i \in DOMAIN uris}
                        \cap DOMAIN id_by_uri }
    IN ids(icalproperty_get_parameters(prop, name))

participant_roles_from_ical(prop, orga) ==
    LET lower(xroles) == {lcase(xroles[i]) : i \in DOMAIN xroles}
        owner(r1) ==
            IF "owner" \notin r1
               /\ strcasecmpsafe_eq(IF orga = NULL THEN NULL ELSE orga.val,
                                    prop.val)
            THEN r1 \cup {"owner", "attendee"} ELSE r1
        is_chair(role) == role # NULL /\ role.s = "CHAIR"
        chair(r2) ==
            IF is_chair(icalproperty_get_first_parameter(prop, "ROLE"))
            THEN r2 \cup {"chair"} ELSE r2
        roles(r3) == json_true_set(IF r3 = {} THEN {"attendee"} ELSE r3)
    IN roles(chair(owner(lower(
           icalproperty_get_parameters(prop, "X-JMAP-ROLE")))))

SetIf(cond, j, k, v) == IF cond THEN json_object_set(j, k, v) ELSE j

\* json_object_set for a value that is not NULL
SetNotNull(j, k, v) == SetIf(v # NULL, j, k, v)

SetIfNotNull(cond, j, k, v) == SetIf(cond /\ v # NULL, j, k, v)

\* One json_object_set_new(j, k, v) under the condition c.  The call does
\* nothing when v is NULL.
Prop(c, k, v) == [c |-> c, k |-> k, v |-> v]

\* The object after a sequence of such statements: each key has the value
\* of the last statement that set it.
json_object_set_all(j, sets) ==
    LET done == {i \in DOMAIN sets : sets[i].c /\ sets[i].v # NULL}
        last(k) == CHOOSE i \in done :
                     /\ sets[i].k = k
                     /\ \A i2 \in done : sets[i2].k = k => i2 <= i
    IN [o |-> [k \in (DOMAIN j.o) \cup {sets[i].k : i \in done} |->
                  IF \E i \in done : sets[i].k = k THEN sets[last(k)].v
                  ELSE j.o[k]]]

json_null_if_empty(j) == IF json_object_size(j) = 0 THEN json_null ELSE j

\* json_object_set of the keys as a set of ids, unless there is none
SetNotEmpty(j, k, keys) == SetIf(keys # {}, j, k, json_true_set(keys))

\* a, or b where a is NULL
OrElse(a, b) == IF a # NULL THEN a ELSE b

\* the e-mail address of a participant: the EMAIL parameter, or the
\* address of the imip URI
participant_email(prop, sendTo) ==
    LET imip_addr(imip) ==
            IF imip # NULL THEN mailaddr_from_uri(json_string_value(imip))
            ELSE NULL
    IN OrElse(OrElse(icalproperty_get_first_parameter(prop, "EMAIL"),
                     imip_addr(json_object_get(sendTo, "imip"))),
              json_null)

participant_from_ical_sendTo(prop, sendTo) ==
    json_object([sendTo |-> sendTo,
                 email |-> participant_email(prop, sendTo),
                 name |-> OrElse(icalproperty_get_first_parameter(prop, "CN"),
                                 json_string(""))])

\* "if (partstat && strcmp(partstat, "none"))"
unless_none(partstat) == IF partstat # NULL /\ partstat # json_string("none") THEN partstat ELSE NULL

participant_from_ical(prop, attendee_by_uri, id_by_uri, orga) ==
    LET kind(cutype) ==
            IF cutype = NULL THEN NULL
            ELSE CASE cutype.s = "INDIVIDUAL" -> json_string("individual")
                   [] cutype.s = "GROUP" -> json_string("group")
                   [] cutype.s = "RESOURCE" -> json_string("resource")
                   [] cutype.s = "ROOM" -> json_string("location")
                   [] OTHER -> json_string("unknown")
        attendance(role) ==
            IF role = NULL THEN NULL
            ELSE CASE role.s = "OPT-PARTICIPANT" -> json_string("optional")
                   [] role.s = "NON-PARTICIPANT" -> json_string("none")
                   [] OTHER -> json_string("required")
        expectReply(rsvp) ==
            IF rsvp = NULL THEN NULL ELSE json_boolean(rsvp.s = "TRUE")
        ids(keys) == IF keys = {} THEN NULL ELSE json_true_set(keys)
        member_id(uri) ==
            IF uri \in DOMAIN id_by_uri THEN id_by_uri[uri] ELSE sha1key(uri)
        memberOf(members) ==
            { member_id(normalized_uri(members[i])) : i \in DOMAIN members }
        linkIds(xlinks) == {lcase(xlinks[i]) : i \in DOMAIN xlinks}
        seq(xseq) == IF xseq = NULL THEN NULL ELSE parsenum(xseq.s)
        dtstamp(xstamp) == IF xstamp = NULL THEN icaltime_null_time
                           ELSE icaltime_from_string(xstamp.s)
        updated(t) ==
            IF ~icaltime_is_null_time(t) /\ ~t.is_date /\ t.is_utc
            THEN json_string(utcdate_from_icaltime_r(t)) ELSE NULL
    IN json_object_set_all(
           participant_from_ical_sendTo(prop, rsvpto_from_ical(prop)),
           << Prop(TRUE, "kind",
                   kind(icalproperty_get_first_parameter(prop, "CUTYPE"))),
              Prop(TRUE, "attendance",
                   attendance(icalproperty_get_first_parameter(prop, "ROLE"))),
              Prop(TRUE, "roles", participant_roles_from_ical(prop, orga)),
              Prop(TRUE, "locationId",
                   get_icalxparam_value(prop, "X-JMAP-LOCATIONID")),
              Prop(TRUE, "participationStatus",
                   unless_none(partstat_from_ical(prop, attendee_by_uri))),
              Prop(TRUE, "expectReply",
                   expectReply(icalproperty_get_first_parameter(prop, "RSVP"))),
              Prop(TRUE, "delegatedTo",
                   ids(participant_ids_from_ical(prop, "DELEGATED-TO",
                                                 id_by_uri))),
              Prop(TRUE, "delegatedFrom",
                   ids(participant_ids_from_ical(prop, "DELEGATED-FROM",
                                                 id_by_uri))),
              Prop(TRUE, "memberOf",
                   ids(memberOf(icalproperty_get_parameters(prop, "MEMBER")))),
              Prop(TRUE, "linkIds",
                   ids(linkIds(icalproperty_get_parameters(prop,
                                                           "X-JMAP-LINKID")))),
              Prop(TRUE, "scheduleSequence",
                   seq(get_icalxparam_value(prop, "X-JMAP-SEQUENCE"))),
              Prop(TRUE, "scheduleUpdated",
                   updated(dtstamp(get_icalxparam_value(prop,
                                                        "X-JMAP-DTSTAMP")))) >>)

participant_from_icalorganizer(orga) ==
    LET is_mailto(col) == col # NULL /\ col.lscheme = "mailto"
        caladdress == orga.val
        j1 == json_object(
                  [name |-> OrElse(icalproperty_get_first_parameter(orga, "CN"),
                                   json_string("")),
                   roles |-> json_object([owner |-> json_true])])
    IN IF is_mailto(UriEntry(caladdress.s))
       THEN json_object_set(
                json_object_set(j1, "sendTo",
                                json_object([imip |-> caladdress])),
                "email", mailaddr_from_uri(caladdress))
       ELSE json_object_set(
                json_object_set(j1, "sendTo",
                                json_object([other |-> caladdress])),
                "email", json_null)

\* the X-JMAP-ID of a property, or the digest of the normalized URI
participant_id_from_ical(prop) ==
    LET key(id) == IF id # NULL THEN id.s
                   ELSE sha1key(normalized_uri(prop.val.s))
    IN key(get_icalxparam_value(prop, "X-JMAP-ID"))

\* The two hash tables of participants_from_ical, over the ATTENDEEs in
\* property order; hash_insert replaces the entry of a key that is there.
attendee_tables(attendees, uri_of) ==
    LET uris == {uri_of[i] : i \in DOMAIN attendees}
        last == [uri \in uris |->
                    CHOOSE i \in DOMAIN attendees :
                      /\ uri_of[i] = uri
                      /\ \A j \in DOMAIN attendees : uri_of[j] = uri => j <= i]
    IN [attendee_by_uri |-> [uri \in uris |-> attendees[last[uri]]],
        id_by_uri |-> [uri \in uris |->
                          participant_id_from_ical(attendees[last[uri]])]]

\* the participants object of the ATTENDEEs: the last ATTENDEE of an id
\* replaces the earlier ones
participants_of_attendees(attendees, uri_of, t, orga) ==
    LET id_of == [i \in DOMAIN attendees |-> t.id_by_uri[uri_of[i]]]
    IN json_object(
           [id \in {id_of[i] : i \in DOMAIN attendees} |->
               participant_from_ical(
                   attendees[CHOOSE i \in DOMAIN attendees :
                               /\ id_of[i] = id
                               /\ \A j \in DOMAIN attendees :
                                    id_of[j] = id => j <= i],
                   t.attendee_by_uri, t.id_by_uri, orga)])

\* the organizer is a participant of its own when no ATTENDEE has its URI
participants_with_organizer(mapped, uri_of, orga) ==
    IF DOMAIN uri_of = {} THEN json_object(<<>>)
    ELSE IF orga # NULL
            /\ \A i \in DOMAIN uri_of : uri_of[i] # normalized_uri(orga.val.s)
         THEN json_object_set(mapped, participant_id_from_ical(orga),
                              participant_from_icalorganizer(orga))
         ELSE mapped

participants_from_attendees(attendees, uri_of, orga) ==
    participants_with_organizer(
        participants_of_attendees(attendees, uri_of,
                                  attendee_tables(attendees, uri_of), orga),
        uri_of, orga)

participants_from_ical(comp) ==
    LET attendees == icalcomponent_get_properties(comp, "ATTENDEE")
        uri_of == [i \in DOMAIN attendees |->
                      normalized_uri(attendees[i].val.s)]
    IN json_null_if_empty(
           participants_from_attendees(
               attendees, uri_of,
               icalcomponent_get_first_property(comp, "ORGANIZER")))

----------------------------------------------------------------------------
(* iCalendar to JSCalendar: the event                                      *)
(* The read context is [wantprops, master, tzid_start, is_allday, uid];    *)
(* master is NULL or the position of the main VEVENT of an exception.      *)

wantprop(c, name) ==
    c.wantprops = NULL \/ json_object_get(c.wantprops, name) # NULL

tzid_from_icalprop(prop) ==
    LET guess(tzid) ==
            IF tzid # NULL
            \* an unknown TZID is guessed from the zone that libical resolved;
            \* no component of the input universe defines a VTIMEZONE
            THEN IF tz_from_tzid(tzid) = NULL THEN NULL ELSE tzid
            ELSE IF ~icaltime_is_null_time(prop.val) /\ prop.val.is_utc
                 THEN json_string("Etc/UTC")
                 ELSE NULL
    IN guess(icalproperty_get_first_parameter(prop, "TZID"))

tzid_from_ical(comp, kind) ==
    LET tzid(prop) == IF prop = NULL THEN NULL ELSE tzid_from_icalprop(prop)
    IN tzid(icalcomponent_get_first_property(comp, kind))

icalcomponent_get_dtstart(comp) ==
    LET time(prop) == IF prop = NULL THEN icaltime_null_time ELSE prop.val
    IN time(icalcomponent_get_first_property(comp, "DTSTART"))

\* icaltime_as_timet_with_zone, in seconds from the first of the month:
\* the times of an event of the input universe are in one month
icaltime_as_secs(t, tz) ==
    LET tt == icaltime_as_timet(t)
    IN tt.day * 86400 + tt.hour * 3600 + tt.minute * 60 + tt.second
       - (IF tz = NULL THEN 0 ELSE UtcOffset(tz))

\* icalcomponent_get_dtend is the DTEND, or the start and the DURATION;
\* the zones are those of dtstart_from_ical and dtend_from_ical
duration_from_ical(comp) ==
    LET dtend == icalcomponent_get_first_property(comp, "DTEND")
        between(secs) ==
            IF secs < 0 THEN "PT0S" ELSE icaldurationtype_as_ical_string(secs)
        str(prop) ==
            IF prop = NULL \/ icaldurationtype_is_bad_duration(prop.val)
            THEN "PT0S"
            ELSE icaldurationtype_as_ical_string(prop.val.secs)
    IN json_string(
           IF dtend # NULL /\ ~icaltime_is_null_time(dtend.val)
           THEN between(
                    icaltime_as_secs(dtend.val,
                                     tz_from_tzid(tzid_from_icalprop(dtend)))
                    - icaltime_as_secs(
                          icalcomponent_get_dtstart(comp),
                          tz_from_tzid(tzid_from_ical(comp, "DTSTART"))))
           ELSE str(icalcomponent_get_first_property(comp, "DURATION")))

keywords_from_ical(comp) ==
    LET keywords(cats) ==
            IF cats = <<>> THEN json_null
            ELSE json_true_set({cats[i].val.s : i \in DOMAIN cats})
    IN keywords(icalcomponent_get_properties(comp, "CATEGORIES"))

locale_from_ical(comp) ==
    LET language(prop) ==
            IF prop # NULL
            THEN icalproperty_get_first_parameter(prop, "LANGUAGE") ELSE NULL
    IN OrElse(OrElse(language(icalcomponent_get_first_property(comp,
                                                               "SUMMARY")),
                     language(icalcomponent_get_first_property(comp,
                                                               "DESCRIPTION"))),
              json_null)

relatedto_from_ical(comp) == json_null

\* icalproperty_get_value_as_string, for the values of the properties that
\* hold an id: a text or a URI is its own string, a time is printed in the
\* local form, and a property without a value has no string
icalproperty_get_value_as_string(prop) ==
    IF prop.val = NULL THEN NULL
    ELSE IF json_is_string(prop.val) THEN prop.val
    ELSE json_string(localdate_from_icaltime_r(prop.val))

\* icalproperty_as_ical_string: the name, each parameter, and the value
icalproperty_as_ical_string(prop) ==
    LET RECURSIVE params(_)
        params(ps) ==
            IF ps = <<>> THEN ""
            ELSE ";" \o Head(ps).name \o "=" \o Head(ps).value
                 \o params(Tail(ps))
        value(str) == IF str = NULL THEN "" ELSE str.s
    IN prop.name \o params(prop.params) \o ":"
       \o value(icalproperty_get_value_as_string(prop))

xjmapid_from_ical(prop) ==
    LET id == get_icalxparam_value(prop, "X-JMAP-ID")
    IN IF id # NULL THEN id.s ELSE sha1key(icalproperty_as_ical_string(prop))

\* strtol(s, &ptr, 10) with *ptr == '\0': the SIZE parameters of the input
\* universe are the decimals below 100, or hold no digit at all
link_size_from_ical(s) ==
    IF \E n \in 0..99 : IntToStr(n) = s
    THEN json_integer(CHOOSE n \in 0..99 : IntToStr(n) = s)
    ELSE json_null

\* every ATTACH of the input universe is a URL, never a BINARY
link_from_ical(prop) ==
    LET href == icalproperty_get_value_as_string(prop)
        x(name) == get_icalxparam_value(prop, name)
        size == icalproperty_get_first_parameter(prop, "SIZE")
        rel == OrElse(x("X-JMAP-REL"),
                      json_string(IF prop.name = "URL" THEN "describedby"
                                  ELSE "enclosure"))
    IN IF href = NULL \/ href.s = "" THEN NULL
       ELSE json_object_set_all(
                json_object([h \in {"href"} |-> href]),
                << Prop(TRUE, "cid", x("X-JMAP-CID")),
                   Prop(TRUE, "type",
                        icalproperty_get_first_parameter(prop, "FMTTYPE")),
                   Prop(TRUE, "title", x("X-TITLE")),
                   Prop(TRUE, "size",
                        IF size = NULL THEN NULL
                        ELSE link_size_from_ical(size.s)),
                   Prop(TRUE, "rel", rel),
                   Prop(TRUE, "display", x("X-JMAP-DISPLAY")) >>)

\* the id of a link: sha1key(NULL) does not happen, every ATTACH and URL of
\* the input universe has a value
link_id_from_ical(prop) ==
    LET id == get_icalxparam_value(prop, "X-JMAP-ID")
    IN IF id # NULL THEN id.s
       ELSE sha1key(icalproperty_get_value_as_string(prop).s)

links_from_ical(comp) ==
    LET props == icalcomponent_get_properties(comp, "ATTACH")
                 \o icalcomponent_get_properties(comp, "URL")
    IN json_null_if_empty(
           json_object_set_all(
               json_object(<<>>),
               [i \in DOMAIN props |->
                   Prop(TRUE, link_id_from_ical(props[i]),
                        link_from_ical(props[i]))]))

\* the link that location_from_ical adds to links for the ALTREP of the
\* property, as the set of its statements
location_altrep_links(prop) ==
    LET altrep == icalproperty_get_first_parameter(prop, "ALTREP")
    IN IF altrep = NULL THEN <<>>
       ELSE << Prop(TRUE, sha1key(altrep.s),
                    json_object([h \in {"href"} |-> altrep])) >>

location_from_ical(prop) ==
    LET x(name) == get_icalxparam_value(prop, name)
        name == IF prop.val = NULL THEN json_string("") ELSE prop.val
        ids == icalproperty_get_parameters(prop, "X-JMAP-LINKID")
        altrep == icalproperty_get_first_parameter(prop, "ALTREP")
        linkids == json_true_set({ids[i] : i \in DOMAIN ids}
                                 \cup (IF altrep = NULL THEN {}
                                       ELSE {sha1key(altrep.s)}))
    IN json_object(
           [k \in {"name", "rel", "description", "timeZone", "coordinates",
                   "linkIds"} |->
               CASE k = "name" -> name
                 [] k = "rel" -> OrElse(x("X-JMAP-REL"), json_string("unknown"))
                 [] k = "description" ->
                      OrElse(x("X-JMAP-DESCRIPTION"), json_null)
                 [] k = "timeZone" -> OrElse(x("X-JMAP-TZID"), json_null)
                 [] k = "coordinates" -> OrElse(x("X-JMAP-GEO"), json_null)
                 [] k = "linkIds" -> json_null_if_empty(linkids)])

\* the value of a GEO of the input universe, the position of its ';' and
\* the uri that coordinates_from_ical makes of it
GeoTable ==
    { [val |-> "48.2;16.3", uri |-> json_string("geo:48.2,16.3")],
      [val |-> "48.2", uri |-> NULL] }

coordinates_from_ical(prop) ==
    (CHOOSE e \in GeoTable : e.val = prop.val.s).uri

\* the statements that set the locations, in the order of the code; no
\* VEVENT of the input universe has an X-APPLE-STRUCTURED-LOCATION
locations_from_ical_sets(comp) ==
    LET tzidstart == tzid_from_ical(comp, "DTSTART")
        tzidend == tzid_from_ical(comp, "DTEND")
        dtend == icalcomponent_get_first_property(comp, "DTEND")
        location == icalcomponent_get_first_property(comp, "LOCATION")
        geo == icalcomponent_get_first_property(comp, "GEO")
        xs == icalcomponent_get_properties(comp, "X-JMAP-LOCATION")
    IN (IF tzidstart # NULL /\ tzidend # NULL /\ tzidstart # tzidend
        THEN << Prop(TRUE, xjmapid_from_ical(dtend),
                     json_object([k \in {"timeZone", "rel"} |->
                                     IF k = "rel" THEN json_string("end")
                                     ELSE tzidend])) >>
        ELSE <<>>)
       \o (IF location # NULL
           THEN << Prop(TRUE, xjmapid_from_ical(location),
                        location_from_ical(location)) >>
           ELSE <<>>)
       \o (IF geo # NULL /\ coordinates_from_ical(geo) # NULL
           THEN << Prop(TRUE, xjmapid_from_ical(geo),
                        json_object([k \in {"coordinates"} |->
                                        coordinates_from_ical(geo)])) >>
           ELSE <<>>)
       \o [i \in DOMAIN xs |->
              Prop(TRUE, xjmapid_from_ical(xs[i]), location_from_ical(xs[i]))]

locations_from_ical(comp) ==
    json_null_if_empty(
        json_object_set_all(json_object(<<>>), locations_from_ical_sets(comp)))

\* the links that locations_from_ical leaves in its argument links
locations_from_ical_links(comp) ==
    LET location == icalcomponent_get_first_property(comp, "LOCATION")
        xs == icalcomponent_get_properties(comp, "X-JMAP-LOCATION")
        RECURSIVE each(_)
        each(ps) == IF ps = <<>> THEN <<>>
                    ELSE location_altrep_links(Head(ps)) \o each(Tail(ps))
    IN json_object_set_all(
           json_object(<<>>),
           (IF location # NULL THEN location_altrep_links(location) ELSE <<>>)
           \o each(xs))

virtuallocations_from_ical(comp) ==
    LET props == icalcomponent_get_properties(comp, "CONFERENCE")
        loc(prop) ==
            json_object_set_all(
                json_object(<<>>),
                << Prop(TRUE, "uri", icalproperty_get_value_as_string(prop)),
                   Prop(TRUE, "name",
                        icalproperty_get_first_parameter(prop, "LABEL")),
                   Prop(TRUE, "description",
                        get_icalxparam_value(prop, "X-JMAP-DESCRIPTION")) >>)
    IN json_null_if_empty(
           json_object_set_all(
               json_object(<<>>),
               [i \in DOMAIN props |->
                   Prop(icalproperty_get_value_as_string(props[i]) # NULL,
                        xjmapid_from_ical(props[i]), loc(props[i]))]))

\* "Ignore alarms with NONE action"
alarm_is_none(alarm) ==
    LET none(action) == action # NULL /\ lcase(action.s) = "none"
    IN none(icalcomponent_get_text(alarm, "ACTION"))

\* a VALARM whose RELATED-TO has a value and the RELTYPE SNOOZE
alarm_is_snooze(alarm) ==
    LET snooze(prop) ==
            /\ prop # NULL
            /\ prop.val.s # ""
            /\ icalproperty_get_first_parameter(prop, "RELTYPE") # NULL
            /\ lcase(icalproperty_get_first_parameter(prop, "RELTYPE").s)
                 = "snooze"
    IN snooze(icalcomponent_get_first_property(alarm, "RELATED-TO"))

\* the first snooze VALARM of a uid, NULL when there is none
alarm_snooze_first(comp, uid) ==
    LET first(snoozes) == IF snoozes = <<>> THEN NULL ELSE Head(snoozes)
    IN first(SelectSeq(comp.comps,
                       LAMBDA a : /\ a.kind = "VALARM"
                                  /\ ~alarm_is_none(a)
                                  /\ alarm_is_snooze(a)
                                  /\ icalcomponent_get_text(a, "RELATED-TO") = uid))

\* the snooze VALARM that hash_lookup finds for a uid: the last one that
\* was inserted under it, NULL when there is none
alarm_snooze(comp, uid) ==
    LET last(snoozes) == IF snoozes = <<>> THEN NULL
                         ELSE snoozes[Len(snoozes)]
    IN last(SelectSeq(comp.comps,
                      LAMBDA a : /\ a.kind = "VALARM"
                                 /\ ~alarm_is_none(a)
                                 /\ alarm_is_snooze(a)
                                 /\ icalcomponent_get_text(a, "RELATED-TO") = uid))

\* the RELATED parameter of the TRIGGER of an alarm, START by default
alarm_related(alarm) ==
    LET related(prop) ==
            IF prop = NULL THEN "START"
            ELSE OrElse(icalproperty_get_first_parameter(prop, "RELATED"),
                        json_string("START")).s
    IN related(icalcomponent_get_first_property(alarm, "TRIGGER"))

\* the trigger of an alarm, the null trigger when it has no TRIGGER
alarm_trigger(alarm) ==
    LET trigger(prop) ==
            IF prop = NULL
            THEN [time |-> icaltime_null_time,
                  duration |-> [secs |-> 0, bad |-> FALSE, is_neg |-> FALSE]]
            ELSE prop.val
    IN trigger(icalcomponent_get_first_property(alarm, "TRIGGER"))

\* "Determine duration between alarm and start/end", for a trigger that is
\* a duration: the primary alarms of the universe have no absolute trigger
alarm_duration(alarm) ==
    CASE alarm_trigger(alarm).duration.secs # 0
         \/ icaltime_is_null_time(alarm_trigger(alarm).time) ->
           alarm_trigger(alarm).duration

\* the time of the TRIGGER of the snooze VALARM of an alarm, NULL when the
\* alert has no snoozed
alarm_snoozed(comp, alarm) ==
    LET time(prop) ==
            IF prop = NULL \/ icaltime_is_null_time(prop.val.time) THEN NULL
            ELSE json_string(utcdate_from_icaltime_r(prop.val.time))
        of(snooze) ==
            IF snooze = NULL THEN NULL
            ELSE time(icalcomponent_get_first_property(snooze, "TRIGGER"))
    IN IF icalcomponent_get_uid(alarm) = NULL THEN NULL
       ELSE of(alarm_snooze(comp, icalcomponent_get_uid(alarm)))

\* the alert of an alarm
alert_from_ical(comp, alarm) ==
    LET utcdate(prop) ==
            IF prop = NULL THEN NULL
            ELSE json_string(utcdate_from_icaltime_r(prop.val))
    IN json_object_set_all(
           json_object(<<>>),
           << Prop(TRUE, "action",
                   json_string(IF icalcomponent_get_text(alarm, "ACTION")
                                    = json_string("EMAIL")
                               THEN "email" ELSE "display")),
              Prop(TRUE, "relativeTo",
                   json_string(
                       (IF alarm_duration(alarm).is_neg THEN "before-"
                        ELSE "after-")
                       \o (IF alarm_related(alarm) = "START" THEN "start"
                           ELSE "end"))),
              Prop(TRUE, "offset",
                   json_string(icaldurationtype_as_ical_string(
                                   alarm_duration(alarm).secs))),
              Prop(TRUE, "acknowledged",
                   utcdate(icalcomponent_get_first_property(alarm,
                                                            "ACKNOWLEDGED"))),
              Prop(TRUE, "snoozed", alarm_snoozed(comp, alarm)) >>)

\* the id of the alert of an alarm: the alarms of the universe have a UID
alert_id_from_ical(alarm) ==
    CASE icalcomponent_get_uid(alarm) # NULL -> icalcomponent_get_uid(alarm).s

\* The alarms are converted in the reverse of their order in the VEVENT,
\* each under its id; an alarm whose RELATED is neither START nor END is
\* skipped.
alerts_from_ical_alarms(comp) ==
    SelectSeq(comp.comps,
              LAMBDA a : /\ a.kind = "VALARM"
                         /\ ~alarm_is_none(a)
                         /\ ~alarm_is_snooze(a)
                         /\ alarm_related(a) \in {"START", "END"})

alerts_from_ical(comp) ==
    LET alarms == alerts_from_ical_alarms(comp)
        last(id) == CHOOSE i \in DOMAIN alarms :
                      /\ alert_id_from_ical(alarms[i]) = id
                      /\ \A j \in 1..(i - 1) : alert_id_from_ical(alarms[j]) # id
    IN IF alarms = <<>> THEN json_null
       ELSE json_object([id \in {alert_id_from_ical(alarms[i]) :
                                   i \in DOMAIN alarms} |->
                            alert_from_ical(comp, alarms[last(id)])])

status_from_ical(comp) ==
    LET jmap(status) ==
            IF status = NULL THEN NULL
            ELSE CASE status.s = "TENTATIVE" -> json_string("tentative")
                   [] status.s = "CONFIRMED" -> json_string("confirmed")
                   [] status.s = "CANCELLED" -> json_string("cancelled")
                   [] OTHER -> NULL
    IN jmap(icalcomponent_get_text(comp, "STATUS"))

freebusystatus_from_ical(comp) ==
    LET jmap(transp) ==
            json_string(IF transp # NULL /\ transp.s = "TRANSPARENT"
                        THEN "free" ELSE "busy")
    IN jmap(icalcomponent_get_text(comp, "TRANSP"))

privacy_from_ical(comp) ==
    LET jmap(class) ==
            json_string(IF class = NULL THEN "public"
                        ELSE CASE class.s = "CONFIDENTIAL" -> "secret"
                               [] class.s = "PRIVATE" -> "private"
                               [] OTHER -> "public")
    IN jmap(icalcomponent_get_text(comp, "CLASS"))

\* the value of a UTC date-time property as a UTCDate, json_null when absent
utcdate_from_icalprop(comp, kind) ==
    LET utcdate(prop) ==
            IF prop = NULL THEN json_null
            ELSE json_string(utcdate_from_icaltime_r(prop.val))
    IN utcdate(icalcomponent_get_first_property(comp, kind))

\* json_pointer_encode: "~" becomes "~0" and "/" becomes "~1".  The string
\* is encoded half by half.
RECURSIVE json_pointer_encode(_)
json_pointer_encode(key) ==
    IF Len(key) = 0 THEN key
    ELSE IF Len(key) = 1
         THEN CASE key = "~" -> "~0"
                [] key = "/" -> "~1"
                [] OTHER -> key
         ELSE json_pointer_encode(SubSeq(key, 1, Len(key) \div 2))
              \o json_pointer_encode(SubSeq(key, Len(key) \div 2 + 1, Len(key)))

\* jmap_patchobject_create(a, b): the patch that turns a into b.  A key of
\* b whose value differs from its value in a is replaced as a whole, unless
\* both values are objects, which are compared key by key.
RECURSIVE jmap_patchobject_diff(_, _, _)
jmap_patchobject_diff(path, a, b) ==
    IF b = NULL \/ a = b THEN {}
    ELSE IF a = NULL \/ ~(json_is_object(a) /\ json_is_object(b))
         THEN {[path |-> path, val |-> b]}
         ELSE UNION { jmap_patchobject_diff(
                          IF path = "" THEN json_pointer_encode(id)
                          ELSE path \o "/" \o json_pointer_encode(id),
                          json_object_get(a, id), b.o[id]) : id \in DOMAIN b.o }

jmap_patchobject_create(a, b) ==
    LET patch(diff) ==
            json_object([path \in {e.path : e \in diff} |->
                            (CHOOSE e \in diff : e.path = path).val])
    IN patch(jmap_patchobject_diff("", a, b))

override_rdate_from_ical(prop) ==
    IF icaltime_is_null_time(prop.val) THEN NULL
    ELSE json_object([t \in {localdate_from_icaltime_r(prop.val)} |->
                         json_object(<<>>)])

\* icaltime_convert_to_zone of a UTC time, for the hours of the universe
icaltime_convert_to_zone(t, tz) ==
    IF t.is_date \/ ~t.is_utc \/ tz = NULL THEN t
    ELSE LET at(day, sod) ==
                 icaltime(t.year, t.month, day, sod \div 3600,
                          (sod % 3600) \div 60, sod % 60, FALSE,
                          tz = icaltimezone_get_utc_timezone)
             wrap(secs) == IF secs < 0 THEN at(t.day - 1, secs + 86400)
                           ELSE at(t.day, secs)
         IN wrap(t.hour * 3600 + t.minute * 60 + t.second + UtcOffset(tz))

\* icaltime_convert_to_zone of a time whose zone is from: dtstart has the
\* zone that localdate_to_icaltime gave it
icaltime_convert_zones(t, from, tz) ==
    IF t.is_date \/ from = NULL \/ tz = NULL \/ from = tz THEN t
    ELSE LET at(day, sod) ==
                 icaltime(t.year, t.month, day, sod \div 3600,
                          (sod % 3600) \div 60, sod % 60, FALSE,
                          tz = icaltimezone_get_utc_timezone)
             wrap(secs) == IF secs < 0 THEN at(t.day - 1, secs + 86400)
                           ELSE IF secs >= 86400 THEN at(t.day + 1, secs - 86400)
                           ELSE at(t.day, secs)
         IN wrap(t.hour * 3600 + t.minute * 60 + t.second
                 + UtcOffset(tz) - UtcOffset(from))

\* qsort with compare_int: the integers of tmp in ascending order
RECURSIVE qsort_int(_)
qsort_int(tmp) ==
    IF tmp = <<>> THEN <<>>
    ELSE LET at == CHOOSE i \in DOMAIN tmp : \A j \in DOMAIN tmp : tmp[i] <= tmp[j]
         IN <<tmp[at]>> \o qsort_int([k \in 1..(Len(tmp) - 1) |->
                                        IF k < at THEN tmp[k] ELSE tmp[k + 1]])

\* byX is the array of libical up to its ICAL_RECURRENCE_ARRAY_MAX entry
recurrence_byX_fromical(byX) ==
    json_array([k \in DOMAIN byX |-> json_integer(qsort_int(byX)[k])])

\* an until for every RRULE that has one
recurrence_from_ical_until_any(rrule) == ~icaltime_is_null_time(rrule.until)

\* whether the rule gets an until: "Recur count takes precedence over
\* until."
recurrence_from_ical_until(rrule) ==
    rrule.count = 0 /\ ~icaltime_is_null_time(rrule.until)

\* An RRULE value is the icalrecurrencetype that libical parsed: its by_*
\* arrays are the sequences of their entries, an entry of by_day is
\* [day, pos] and one of by_month is [month, leap].
recurrence_from_ical_rrule(c, rrule) ==
    LET jday(e) ==
            json_object_set_all(
                json_object([k \in {"day"} |-> json_string(lcase(e.day))]),
                << Prop(e.pos # 0, "nthOfPeriod", json_integer(e.pos)) >>)
        jmonth(e) ==
            json_string(IntToStr(e.month) \o (IF e.leap THEN "L" ELSE ""))
        byX(name, arr) ==
            Prop(arr # <<>>, name, recurrence_byX_fromical(arr))
        until(dtloc) == json_string(localdate_from_icaltime_r(dtloc))
        nonempty(recur) ==
            IF json_object_size(recur) = 0 THEN json_null ELSE recur
    IN nonempty(json_object_set_all(
           json_object([k \in {"frequency"} |-> json_string(lcase(rrule.freq))]),
           << Prop(rrule.interval > 1, "interval", json_integer(rrule.interval)),
              Prop(rrule.rscale # "", "rscale", json_string(lcase(rrule.rscale))),
              Prop(rrule.skip \in {"BACKWARD", "FORWARD"}, "skip",
                   json_string(lcase(rrule.skip))),
              Prop(lcase(rrule.week_start) # "mo", "firstDayOfWeek",
                   json_string(lcase(rrule.week_start))),
              Prop(rrule.by_day # <<>>, "byDay",
                   json_array([k \in DOMAIN rrule.by_day |->
                                  jday(rrule.by_day[k])])),
              Prop(rrule.by_month # <<>>, "byMonth",
                   json_array([k \in DOMAIN rrule.by_month |->
                                  jmonth(rrule.by_month[k])])),
              byX("byDate", rrule.by_month_day),
              byX("byYearDay", rrule.by_year_day),
              byX("byWeekNo", rrule.by_week_no),
              byX("byHour", rrule.by_hour),
              byX("byMinute", rrule.by_minute),
              byX("bySecond", rrule.by_second),
              byX("bySetPosition", rrule.by_set_pos),
              \* Recur count takes precedence over until.
              Prop(rrule.count # 0, "count", json_integer(rrule.count)),
              Prop(recurrence_from_ical_until(rrule), "until",
                   until(icaltime_convert_to_zone(
                             rrule.until, tz_from_tzid(c.tzid_start)))) >>))

recurrence_from_ical(c, comp) ==
    IF icalcomponent_get_first_property(comp, "RRULE") = NULL THEN json_null
    ELSE recurrence_from_ical_rrule(
             c, icalcomponent_get_first_property(comp, "RRULE").val)

override_exdate_from_ical(c, prop) ==
    LET convert(tzid_xdate, tz_start) ==
            IF c.tzid_start # NULL /\ tzid_xdate # NULL
               /\ c.tzid_start # tzid_xdate
               /\ tz_from_tzid(tzid_xdate) # NULL /\ tz_start # NULL
            THEN icaltime_convert_to_zone(prop.val, tz_start)
            ELSE prop.val
        excluded(id) ==
            IF icaltime_is_null_time(id) THEN NULL
            ELSE json_object([t \in {localdate_from_icaltime_r(id)} |->
                                 json_object([excluded |-> json_true])])
    IN excluded(convert(tzid_from_icalprop(prop), tz_from_tzid(c.tzid_start)))

\* json_object_update(overrides, override) for each override of a sequence
\* that is not NULL
RECURSIVE overrides_update(_, _)
overrides_update(overrides, news) ==
    IF news = <<>> THEN overrides
    ELSE overrides_update(IF Head(news) = NULL THEN overrides
                          ELSE json_object_update(overrides, Head(news)),
                          Tail(news))

icalcomponent_get_recurrenceid(comp) ==
    LET time(prop) == IF prop = NULL THEN icaltime_null_time ELSE prop.val
    IN time(icalcomponent_get_first_property(comp, "RECURRENCE-ID"))

icalcomponent_get_sequence(comp) ==
    LET number(prop) == IF prop = NULL THEN 0 ELSE prop.val.i
    IN number(icalcomponent_get_first_property(comp, "SEQUENCE"))

RECURSIVE calendarevent_from_ical(_, _, _, _)

\* The body of the loop over the sibling VEVENTs, for the sibling at
\* position xi, with the patch left out: the recurrence id and the converted
\* exception, or NULL when the sibling is skipped.  strcmp(exuid, ctx->uid)
\* is called with ctx->uid NULL when the main VEVENT has no UID; ub is what
\* the comparison then answers, "equal" or "differ".
exception_from_ical(c, ical, ci, xi, ub) ==
    LET unrelated(exuid) ==
            exuid = NULL
            \/ IF c.uid = NULL THEN ub = "differ" ELSE exuid # c.uid
        has_start(exstart, s) == exstart # NULL /\ exstart.s = s
        without_start(ex1, s) ==
            IF has_start(json_string_value(json_object_get(ex1, "start")), s)
            THEN json_object_del(ex1, "start") ELSE ex1
        entry(ex, s) ==
            [key |-> s,
             ex |-> without_start(
                        json_object_del(json_object_del(ex, "updated"),
                                        "created"), s)]
    IN IF xi = ci \/ unrelated(icalcomponent_get_uid(ical.comps[xi]))
       THEN NULL
       ELSE entry(calendarevent_from_ical(
                      [wantprops |-> c.wantprops, master |-> [idx |-> ci]],
                      ical, xi, ub),
                  localdate_from_icaltime_r(
                      icalcomponent_get_recurrenceid(ical.comps[xi])))

\* override_from_icalexception with the converted exception stored as it is,
\* where the code stores the patch
override_from_icalexception_nodiff(c, ical, ci, xi, event, ub) ==
    LET override(x) ==
            IF x = NULL THEN NULL ELSE json_object([t \in {x.key} |-> x.ex])
    IN override(exception_from_ical(c, ical, ci, xi, ub))

\* The entry that one sibling VEVENT adds to exceptions, NULL when it is
\* skipped.
override_from_icalexception(c, ical, ci, xi, event, ub) ==
    LET override(x) ==
            IF x = NULL THEN NULL
            ELSE json_object([t \in {x.key} |->
                                 jmap_patchobject_create(event, x.ex)])
    IN override(exception_from_ical(c, ical, ci, xi, ub))

overrides_from_ical(c, ical, ci, event, ub) ==
    LET rdates(props) ==
            [i \in DOMAIN props |-> override_rdate_from_ical(props[i])]
        exdates(props) ==
            [i \in DOMAIN props |-> override_exdate_from_ical(c, props[i])]
        exceptions(siblings) ==
            [i \in DOMAIN siblings |->
                override_from_icalexception(c, ical, ci, siblings[i], event,
                                            ub)]
        result(overrides) ==
            IF json_object_size(overrides) = 0 THEN json_null ELSE overrides
    IN result(json_object_update(
                  overrides_update(
                      overrides_update(
                          json_object(<<>>),
                          rdates(icalcomponent_get_properties(ical.comps[ci],
                                                              "RDATE"))),
                      exdates(icalcomponent_get_properties(ical.comps[ci],
                                                           "EXDATE"))),
                  overrides_update(
                      json_object(<<>>),
                      exceptions(icalcomponent_get_components(ical,
                                                              "VEVENT")))))

\* whether overrides_from_ical passes a NULL pointer to strcmp
overrides_from_ical_ub(ical, ci) ==
    /\ icalcomponent_get_uid(ical.comps[ci]) = NULL
    /\ \E xi \in DOMAIN ical.comps :
         /\ xi # ci
         /\ ical.comps[xi].kind = "VEVENT"
         /\ icalcomponent_get_uid(ical.comps[xi]) # NULL

\* whether wantprops is cleared: for a main VEVENT whose overrides are
\* wanted, so that the patches are made from complete events
wantprops_disabled(c0) ==
    c0.wantprops # NULL /\ wantprop(c0, "recurrenceOverrides")
    /\ c0.master = NULL

\* the fields that calendarevent_from_ical sets in the context before it
\* converts
calendarevent_from_ical_ctx(c0, comp, dtstart) ==
    [wantprops |-> IF wantprops_disabled(c0) THEN NULL ELSE c0.wantprops,
     master |-> c0.master,
     tzid_start |-> IF dtstart.is_date THEN NULL
                    ELSE tzid_from_ical(comp, "DTSTART"),
     is_allday |-> dtstart.is_date,
     uid |-> icalcomponent_get_uid(comp)]

\* the properties of the event other than recurrenceOverrides
calendarevent_from_ical_props(c, ical, comp) ==
    LET is_exc == c.master # NULL
        W(name) == wantprop(c, name)
        lower(str) == IF str = NULL THEN NULL ELSE json_string(lcase(str.s))
        is_true(str) == str # NULL /\ lcase(str.s) = "true"
        value(prop) == IF prop = NULL THEN NULL ELSE prop.val
        reply_to(orga) ==
            IF orga = NULL THEN NULL ELSE rsvpto_from_ical(orga)
    IN json_object_set_all(
           json_object([type \in {"@type"} |-> json_string("jsevent")]),
           << Prop(W("isAllDay") /\ ~is_exc, "isAllDay",
                    json_boolean(c.is_allday)),
              Prop(c.uid # NULL /\ ~is_exc, "uid", c.uid),
              Prop(W("relatedTo") /\ ~is_exc, "relatedTo",
                    relatedto_from_ical(comp)),
              Prop(W("prodId") /\ ~is_exc, "prodId",
                    OrElse(icalcomponent_get_text(ical, "PRODID"), json_null)),
              Prop(W("created"), "created",
                    utcdate_from_icalprop(comp, "CREATED")),
              Prop(W("updated"), "updated",
                    utcdate_from_icalprop(comp, "DTSTAMP")),
              Prop(W("sequence"), "sequence",
                    json_integer(icalcomponent_get_sequence(comp))),
              Prop(W("priority"), "priority",
                    value(icalcomponent_get_first_property(comp, "PRIORITY"))),
              Prop(W("title"), "title",
                    OrElse(icalcomponent_get_text(comp, "SUMMARY"),
                           json_string(""))),
              Prop(W("description"), "description",
                     OrElse(icalcomponent_get_text(comp, "DESCRIPTION"),
                            json_string(""))),
              Prop(W("descriptionContentType"), "descriptionContentType",
                   json_string("text/plain")),
              Prop(W("method"), "method",
                            lower(icalcomponent_get_text(ical, "METHOD"))),
              Prop(W("color"), "color",
                     icalcomponent_get_text(comp, "COLOR")),
              Prop(W("keywords"), "keywords", keywords_from_ical(comp)),
              Prop(W("links"), "links", links_from_ical(comp)),
              Prop(W("locale"), "locale", locale_from_ical(comp)),
              Prop(W("locations"), "locations",
                     locations_from_ical(comp)),
              Prop(W("locations")
                     /\ json_object_size(locations_from_ical_links(comp)) > 0,
                   "links",
                   IF W("links") /\ JNOTNULL(links_from_ical(comp))
                   THEN json_object_update(links_from_ical(comp),
                                           locations_from_ical_links(comp))
                   ELSE locations_from_ical_links(comp)),
              Prop(W("virtualLocations"), "virtualLocations",
                     virtuallocations_from_ical(comp)),
              Prop(W("start"), "start",
                     json_string(localdate_from_icaltime_r(
                                     icalcomponent_get_dtstart(comp)))),
              Prop(W("timeZone"), "timeZone",
                     IF c.tzid_start # NULL /\ ~c.is_allday THEN c.tzid_start
                     ELSE json_null),
              Prop(W("duration"), "duration", duration_from_ical(comp)),
              Prop(W("recurrenceRule") /\ ~is_exc, "recurrenceRule",
                     recurrence_from_ical(c, comp)),
              Prop(W("status"), "status",
                            status_from_ical(comp)),
              Prop(W("freeBusyStatus"), "freeBusyStatus",
                     freebusystatus_from_ical(comp)),
              Prop(W("privacy"), "privacy", privacy_from_ical(comp)),
              Prop(W("replyTo") /\ ~is_exc, "replyTo",
                     reply_to(icalcomponent_get_first_property(comp,
                                                               "ORGANIZER"))),
              Prop(W("participants"), "participants",
                     participants_from_ical(comp)),
              Prop(W("useDefaultAlerts")
                   /\ is_true(icalcomponent_get_text(comp,
                                                     "X-JMAP-USEDEFAULTALERTS")),
                   "useDefaultAlerts", json_true),
              Prop(W("alerts"), "alerts", alerts_from_ical(comp)) >>)

\* recurrenceOverrides, which only a main VEVENT has
calendarevent_from_ical_overrides(c, ical, ci, event, ub) ==
    IF wantprop(c, "recurrenceOverrides") /\ c.master = NULL
    THEN json_object_set(event, "recurrenceOverrides",
                         overrides_from_ical(c, ical, ci, event, ub))
    ELSE event

\* the event as it is before the properties are removed
calendarevent_from_ical_unfiltered(c0, event) == event

\* the properties that the caller did not ask for are removed again
calendarevent_from_ical_filter(c0, event) ==
    IF wantprops_disabled(c0)
    THEN json_object([key \in (DOMAIN c0.wantprops.o) \cap (DOMAIN event.o) |->
                         event.o[key]])
    ELSE event

\* the conversion under the context c
calendarevent_from_ical_event(c0, c, ical, ci, ub) ==
    calendarevent_from_ical_filter(
        c0,
        calendarevent_from_ical_overrides(
            c, ical, ci,
            calendarevent_from_ical_props(c, ical, ical.comps[ci]), ub))

calendarevent_from_ical(c0, ical, ci, ub) ==
    calendarevent_from_ical_event(
        c0,
        calendarevent_from_ical_ctx(c0, ical.comps[ci],
                                    icalcomponent_get_dtstart(ical.comps[ci])),
        ical, ci, ub)

----------------------------------------------------------------------------
(* iCalendar to JSCalendar: the entry points                               *)

\* The main VEVENTs in the order in which the conversion loop takes them:
\* ptrarray_append adds at the end of todo and ptrarray_pop takes from the
\* end, so the VEVENT appended last is converted first.
tojmap_todo(ical) ==
    LET vevents == icalcomponent_get_components(ical, "VEVENT")
        main(i) ==
            /\ icalcomponent_get_first_property(ical.comps[i],
                                                "RECURRENCE-ID") = NULL
            /\ icalcomponent_get_uid(ical.comps[i]) # NULL
        todo == SelectSeq(vevents, main)
        promoted == IF vevents # <<>> /\ todo = <<>>
                    THEN <<Head(vevents)>> ELSE todo
    IN [i \in 1..Len(promoted) |-> promoted[Len(promoted) + 1 - i]]

jmapical_tojmap_all(ical, props, ub) ==
    LET todo == tojmap_todo(ical)
    IN json_array([i \in 1..Len(todo) |->
           calendarevent_from_ical([wantprops |-> props, master |-> NULL],
                                   ical, todo[i], ub)])

\* whether the conversion of one of the VEVENTs runs into the strcmp on NULL
jmapical_tojmap_all_ub(ical) ==
    LET todo == tojmap_todo(ical)
    IN \E i \in DOMAIN todo : overrides_from_ical_ub(ical, todo[i])

jmapical_tojmap(ical, props, ub) ==
    LET events == jmapical_tojmap_all(ical, props, ub)
    IN IF json_array_size(events) > 0 THEN events.a[1] ELSE NULL

JMAPICAL_ERROR_NONE == "Success"

JMAPICAL_ERROR_PROPS == "Props"

JMAPICAL_ERROR_UID == "Uid"

JMAPICAL_ERROR_UNKNOWN == "Unknown"

----------------------------------------------------------------------------
(* The input universe of to_jmap                                           *)

\* the most components of a VCALENDAR
MaxComps == 2

TextProp(name, str) == icalproperty_new(name, json_string(str))

Start1 == icaltime(2020, 1, 1, 9, 0, 0, FALSE, FALSE)

Recur1 == icaltime(2020, 1, 8, 9, 0, 0, FALSE, FALSE)

Moved1 == icaltime(2020, 1, 8, 10, 30, 0, FALSE, FALSE)

Stamp1 == icaltime(2020, 1, 1, 0, 0, 0, FALSE, TRUE)

\* a VEVENT with or without UID and RECURRENCE-ID; "" leaves the UID out
VEvent(uid, has_recurid, dtstart, summary) ==
    [kind |-> "VEVENT", comps |-> <<>>,
     props |-> (IF uid = "" THEN <<>> ELSE <<TextProp("UID", uid)>>)
               \o <<icalproperty_new("DTSTAMP", Stamp1),
                    icalproperty_new("DTSTART", dtstart)>>
               \o (IF has_recurid
                   THEN <<icalproperty_new("RECURRENCE-ID", Recur1)>>
                   ELSE <<>>)
               \o <<TextProp("SUMMARY", summary),
                    icalproperty_new("DURATION",
                                     icaldurationtype_from_string("PT1H"))>>]

BasicVEvents ==
    { VEvent(uid, rid, dtstart, summary) :
        uid \in {"", "u1", "u2"}, rid \in BOOLEAN,
        dtstart \in {Recur1, Moved1},
        summary \in {"Weekly sync", "Weekly sync - cancelled"} }

VTimezone == icalcomponent_new("VTIMEZONE")

VCalendar(comps) ==
    [kind |-> "VCALENDAR", comps |-> comps,
     props |-> <<TextProp("VERSION", "2.0"), TextProp("PRODID", "-//x//EN")>>]

BasicCalendars ==
    { VCalendar(comps) :
        comps \in UNION { [1..n -> BasicVEvents \cup {VTimezone}] :
                            n \in 0..MaxComps } }

\* An ATTENDEE that has answered (0 accepted, -1 declined) or has delegated
\* to the ATTENDEE of position to > 0.
Attendee(i, to) ==
    LET p1 == icalproperty_add_parameter(
                  icalproperty_new("ATTENDEE", json_string(AttendeeUri(i))),
                  "X-JMAP-ID", "p" \o IntToStr(i))
        p2 == icalproperty_add_parameter(p1, "PARTSTAT",
                  IF to > 0 THEN "DELEGATED"
                  ELSE IF to = 0 THEN "ACCEPTED" ELSE "DECLINED")
    IN IF to > 0
       THEN icalproperty_add_parameter(p2, "DELEGATED-TO", AttendeeUri(to))
       ELSE p2

\* a VEVENT with the ATTENDEEs 1..n, and with an ORGANIZER if has_orga says
\* so; the ATTENDEE i has answered or delegated as to[i] says
AttendeeVEvent(n, to, has_orga) ==
    [kind |-> "VEVENT", comps |-> <<>>,
     props |-> <<TextProp("UID", "u1"),
                 icalproperty_new("DTSTART", Start1),
                 TextProp("SUMMARY", "Review")>>
               \o (IF has_orga
                   THEN <<TextProp("ORGANIZER", "mailto:o@example.com")>>
                   ELSE <<>>)
               \o [i \in 1..n |-> Attendee(i, to[i])]]

AttendeeCalendars ==
    { VCalendar(<<AttendeeVEvent(Len(to), to, has_orga)>>) :
        to \in UNION { {f \in [1..m -> (0 - 1)..m] : \A i \in 1..m : f[i] # i} :
                         m \in 0..MaxAttendees },
        has_orga \in BOOLEAN }

IcalInputs == BasicCalendars \cup AttendeeCalendars

----------------------------------------------------------------------------
(* The caller of to_jmap                                                   *)

NoError == [code |-> JMAPICAL_ERROR_NONE, props |-> NULL]

Init_tojmap ==
    /\ pc = "start"
    /\ obj = NULL
    /\ vcalendar \in IcalInputs
    /\ jsevent = NULL
    /\ jsevents = NULL
    /\ jerr = NoError
    /\ context = NULL
    /\ jprops = NULL
    /\ obj_out = obj
    /\ loop = NULL

\* What the strcmp on a NULL pointer can do: answer either way, or end the
\* process.
UbOutcomes == {"equal", "differ", "crash"}

Call_jmapical_tojmap_all ==
    /\ pc = "start"
    /\ \E ub \in IF jmapical_tojmap_all_ub(vcalendar) THEN UbOutcomes
                 ELSE {"differ"} :
         IF ub = "crash"
         THEN pc' = "crashed" /\ jsevents' = jsevents
         ELSE /\ pc' = "tojmap_all"
              /\ jsevents' = jmapical_tojmap_all(vcalendar, NULL, ub)
    /\ UNCHANGED <<obj, vcalendar, jsevent, jerr, context, jprops, obj_out, loop>>

Call_jmapical_tojmap ==
    /\ pc \in {"start", "toical"}
    /\ vcalendar # NULL
    /\ \E ub \in IF jmapical_tojmap_all_ub(vcalendar) THEN UbOutcomes
                 ELSE {"differ"} :
         IF ub = "crash"
         THEN pc' = "crashed" /\ jsevent' = jsevent
         ELSE /\ pc' = "tojmap"
              /\ jsevent' = jmapical_tojmap(vcalendar, NULL, ub)
    /\ UNCHANGED <<obj, vcalendar, jsevents, jerr, context, jprops, obj_out,
                 loop>>

Next_tojmap == Call_jmapical_tojmap_all \/ Call_jmapical_tojmap

Spec_tojmap == Init_tojmap /\ [][Next_tojmap]_vars

----------------------------------------------------------------------------
(* The PARTSTAT loop of participant_from_ical, pass by pass                *)

\* the most ATTENDEEs of a VEVENT whose delegations are walked
MaxDelegators == 2

\* What an ATTENDEE of these VEVENTs says: it has delegated to the
\* ATTENDEE of a position (itself, another one, or one that the VEVENT
\* does not have), has accepted (0) or declined (-1), has delegated and
\* names no delegate (-2), has delegated with a DELEGATED-TO that was made
\* without a value (-3), or has no PARTSTAT (-4).
DelegatorAnswers == (0 - 4)..(MaxDelegators + 1)

Delegator(i, to) ==
    LET p1 == icalproperty_add_parameter(
                  icalproperty_new("ATTENDEE", json_string(AttendeeUri(i))),
                  "X-JMAP-ID", "p" \o IntToStr(i))
        p2 == IF to = 0 - 4 THEN p1
              ELSE icalproperty_add_parameter(
                       p1, "PARTSTAT",
                       IF to = 0 THEN "ACCEPTED"
                       ELSE IF to = 0 - 1 THEN "DECLINED" ELSE "DELEGATED")
    IN IF to > 0
       THEN icalproperty_add_parameter(p2, "DELEGATED-TO", AttendeeUri(to))
       ELSE IF to = 0 - 3
            THEN [p2 EXCEPT !.params =
                     Append(@, [name |-> "DELEGATED-TO", value |-> "",
                                novalue |-> TRUE])]
            ELSE p2

DelegatorCalendars ==
    { VCalendar(<<[kind |-> "VEVENT", comps |-> <<>>,
                   props |-> <<TextProp("UID", "u1"),
                               icalproperty_new("DTSTART", Start1)>>
                             \o [i \in 1..Len(to) |-> Delegator(i, to[i])]]>>) :
        to \in UNION { [1..m -> DelegatorAnswers] : m \in 1..MaxDelegators } }

Init_partstat ==
    /\ pc = "start"
    /\ obj = NULL
    /\ vcalendar \in DelegatorCalendars
    /\ jsevent = NULL
    /\ jsevents = NULL
    /\ jerr = NoError
    /\ context = NULL
    /\ jprops = NULL
    /\ obj_out = obj
    /\ loop = NULL

\* the ATTENDEEs of the VEVENT and the table of them by URI
partstat_attendees == icalcomponent_get_properties(vcalendar.comps[1], "ATTENDEE")

partstat_attendee_by_uri ==
    attendee_tables(partstat_attendees,
                    [i \in DOMAIN partstat_attendees |->
                        normalized_uri(partstat_attendees[i].val.s)]).attendee_by_uri

\* whether the pass of the loop that is next looks a delegate up
partstat_looks_up(prop, l) ==
    /\ icalproperty_get_first_parameter(l.partstat_prop, "PARTSTAT")
         = json_string("DELEGATED")
    /\ icalproperty_get_first_parameter(prop, "DELEGATED-TO") # NULL
    /\ ~delegatedto_is_null(prop)

\* participant_from_ical comes to the loop for one of the ATTENDEEs;
\* lookups counts the calls of hash_lookup
Enter_partstat_loop ==
    /\ pc = "start"
    /\ \E i \in DOMAIN partstat_attendees :
          loop' = [prop |-> partstat_attendees[i],
                   l |-> [partstat |-> NULL,
                          partstat_prop |-> partstat_attendees[i],
                          depth |-> 0, brk |-> FALSE],
                   lookups |-> 0]
    /\ pc' = "partstat"
    /\ UNCHANGED <<obj, vcalendar, jsevent, jsevents, jerr, context, jprops,
                   obj_out>>

\* one pass of "while (!partstat)"
Pass_partstat_loop ==
    /\ pc = "partstat"
    /\ loop.l.partstat = NULL /\ ~loop.l.brk
    /\ loop' = [loop EXCEPT
                   !.l = partstat_loop_body(loop.prop, @,
                                            partstat_attendee_by_uri),
                   !.lookups = IF partstat_looks_up(loop.prop, loop.l)
                               THEN @ + 1 ELSE @]
    /\ UNCHANGED <<pc, obj, vcalendar, jsevent, jsevents, jerr, context,
                   jprops, obj_out>>

\* the loop has ended: participationStatus is set unless partstat is NULL
\* or "none"
Exit_partstat_loop ==
    /\ pc = "partstat"
    /\ loop.l.partstat # NULL \/ loop.l.brk
    /\ pc' = "tojmap"
    /\ jsevent' = json_object_set_all(
                      json_object(<<>>),
                      <<Prop(TRUE, "participationStatus",
                             unless_none(loop.l.partstat))>>)
    /\ UNCHANGED <<obj, vcalendar, jsevents, jerr, context, jprops, obj_out,
                   loop>>

Next_partstat ==
    Enter_partstat_loop \/ Pass_partstat_loop \/ Exit_partstat_loop

\* the thread that runs participant_from_ical is scheduled again and again
Spec_partstat ==
    Init_partstat /\ [][Next_partstat]_vars /\ WF_vars(Next_partstat)

----------------------------------------------------------------------------
(* VEVENTs with VALARMs                                                    *)

\* the most VALARMs of a VEVENT
MaxValarms == 3

DurationTrigger ==
    icalproperty_new("TRIGGER",
        [time |-> icaltime_null_time,
         duration |-> [secs |-> 900, bad |-> FALSE, is_neg |-> TRUE]])

TimeTrigger ==
    icalproperty_new("TRIGGER",
        [time |-> icaltime(2020, 1, 8, 9, 0, 0, FALSE, TRUE),
         duration |-> [secs |-> 0, bad |-> FALSE, is_neg |-> FALSE]])

\* a VALARM of the properties
Valarm(props) == [kind |-> "VALARM", comps |-> <<>>, props |-> props]

\* an alarm with a UID, a relative TRIGGER and an ACTION
PrimaryValarm(uid, action) ==
    Valarm(<<TextProp("UID", uid), DurationTrigger, TextProp("ACTION", action)>>)

\* An alarm with the UID s1 and a RELATED-TO of the value and the RELTYPE,
\* "" for none; its TRIGGER is absolute ("time"), relative ("duration") or
\* left out, and its ACTION is left out when it is "".
RelatedValarm(uid, of, reltype, trigger, action) ==
    Valarm(<<TextProp("UID", uid),
             IF reltype = "" THEN TextProp("RELATED-TO", of)
             ELSE icalproperty_add_parameter(TextProp("RELATED-TO", of),
                                             "RELTYPE", reltype)>>
           \o (IF trigger = "time" THEN <<TimeTrigger>>
               ELSE IF trigger = "duration" THEN <<DurationTrigger>> ELSE <<>>)
           \o (IF action = "" THEN <<>> ELSE <<TextProp("ACTION", action)>>))

Valarms ==
    { PrimaryValarm("a1", action) : action \in {"DISPLAY", "EMAIL", "NONE"} }
    \cup { PrimaryValarm("a2", "DISPLAY") }
    \cup { RelatedValarm("s1", "a1", "SNOOZE", trigger, action) :
             trigger \in {"time", "duration", ""}, action \in {"", "NONE"} }
    \cup { RelatedValarm("s1", "a2", "SNOOZE", "time", ""),
           RelatedValarm("a2", "", "SNOOZE", "duration", ""),
           RelatedValarm("a2", "a1", "", "duration", "") }

ValarmCalendars ==
    { VCalendar(<<[kind |-> "VEVENT", comps |-> alarms,
                   props |-> <<TextProp("UID", "u1"),
                               icalproperty_new("DTSTART", Start1)>>]>>) :
        alarms \in UNION { [1..n -> Valarms] : n \in 0..MaxValarms } }

Init_valarms ==
    /\ pc = "start"
    /\ obj = NULL
    /\ vcalendar \in ValarmCalendars
    /\ jsevent = NULL
    /\ jsevents = NULL
    /\ jerr = NoError
    /\ context = NULL
    /\ jprops = NULL
    /\ obj_out = obj
    /\ loop = NULL

Spec_valarms == Init_valarms /\ [][Next_tojmap]_vars

----------------------------------------------------------------------------
(* The caller of to_jmap who asks for some of the properties               *)

\* the most names in a wantProps object
MaxWantProps == 2

WantPropNames ==
    {"@type", "uid", "title", "start", "links", "locations", "alerts",
     "participants", "recurrenceOverrides"}

WantPropSets ==
    { json_true_set(W) : W \in { X \in SUBSET WantPropNames :
                                   Cardinality(X) <= MaxWantProps } }

\* VEVENTs with a LOCATION whose ALTREP names a document, with an ATTACH,
\* and with an exception
LocationVEvent(altrep, attach) ==
    LET location == icalproperty_add_parameter(TextProp("LOCATION", "Room 1"),
                                               "X-JMAP-ID", "loc1")
        master == VEvent("u1", FALSE, Start1, "Weekly sync")
    IN [master EXCEPT !.props =
           @ \o << IF altrep
                   THEN icalproperty_add_parameter(location, "ALTREP",
                                                   "https://example.com/room")
                   ELSE location >>
             \o (IF attach
                 THEN << icalproperty_add_parameter(
                             TextProp("ATTACH", "https://example.com/a"),
                             "X-JMAP-ID", "l1") >>
                 ELSE <<>>)]

WantPropsCalendars ==
    { VCalendar(<<LocationVEvent(altrep, attach)>>) :
        altrep \in BOOLEAN, attach \in BOOLEAN }
    \cup { VCalendar(<<VEvent("u1", FALSE, Start1, "Weekly sync")>>),
           VCalendar(<<VEvent("", FALSE, Start1, "Weekly sync")>>),
           VCalendar(<<VEvent("u1", FALSE, Start1, "Weekly sync"),
                       VEvent("u1", TRUE, Moved1, "Weekly sync - cancelled")>>),
           VCalendar(<<AttendeeVEvent(1, <<0>>, TRUE)>>) }

Init_wantprops ==
    /\ pc = "start"
    /\ obj = NULL
    /\ vcalendar \in WantPropsCalendars
    /\ jsevent = NULL
    /\ jsevents = NULL
    /\ jerr = NoError
    /\ context = NULL
    /\ jprops = NULL
    /\ obj_out = obj
    /\ loop = NULL

Call_jmapical_tojmap_props ==
    /\ pc = "start"
    /\ vcalendar # NULL
    /\ \E W \in WantPropSets :
         \E ub \in IF jmapical_tojmap_all_ub(vcalendar)
                      /\ json_object_get(W, "recurrenceOverrides") # NULL
                   THEN UbOutcomes ELSE {"differ"} :
            IF ub = "crash"
            THEN pc' = "crashed" /\ UNCHANGED <<jsevent, jprops>>
            ELSE /\ pc' = "tojmap"
                 /\ jprops' = W
                 /\ jsevent' = jmapical_tojmap(vcalendar, W, ub)
    /\ UNCHANGED <<obj, vcalendar, jsevents, jerr, context, obj_out, loop>>

Spec_wantprops == Init_wantprops /\ [][Call_jmapical_tojmap_props]_vars

----------------------------------------------------------------------------
(* Properties of to_jmap                                                   *)

\* the read context of a main VEVENT when the caller asks for all properties
MainContext == [wantprops |-> NULL, master |-> NULL]

\* the positions of the VEVENTs of a VCALENDAR, in component order
VEvents(ical) == icalcomponent_get_components(ical, "VEVENT")

\* the positions of the master VEVENTs, those that have a UID and no
\* RECURRENCE-ID, in component order
Masters(ical) ==
    SelectSeq(VEvents(ical),
              LAMBDA i :
                /\ icalcomponent_get_uid(ical.comps[i]) # NULL
                /\ icalcomponent_get_first_property(ical.comps[i],
                                                    "RECURRENCE-ID") = NULL)

\* C2: for a VCALENDAR with several master VEVENTs, jmapical_tojmap returns
\* the conversion of the master VEVENT that comes first in component order.
C2_FirstMasterConverted ==
    (pc = "tojmap" /\ Len(Masters(vcalendar)) >= 2) =>
        jsevent = calendarevent_from_ical(MainContext, vcalendar,
                                          Head(Masters(vcalendar)), "differ")

\* C3: jmapical_tojmap_all returns, and what it returns has exactly one
\* event for each master VEVENT; when there are VEVENTs but no master it has
\* exactly one event, converted from the first VEVENT; when there is no
\* VEVENT it is the empty list.
C3_OneEventPerMaster ==
    /\ pc # "crashed"
    /\ pc = "tojmap_all" =>
         LET masters == Masters(vcalendar)
             vevents == VEvents(vcalendar)
         IN /\ json_is_array(jsevents)
            /\ masters # <<>> =>
                 /\ json_array_size(jsevents) = Len(masters)
                 /\ \A m \in DOMAIN masters :
                      \E i \in DOMAIN jsevents.a :
                        jsevents.a[i] = calendarevent_from_ical(
                            MainContext, vcalendar, masters[m], "differ")
            /\ (masters = <<>> /\ vevents # <<>>) =>
                 /\ json_array_size(jsevents) = 1
                 /\ \E ub \in {"equal", "differ"} :
                      jsevents.a[1] = calendarevent_from_ical(
                          MainContext, vcalendar, Head(vevents), ub)
            /\ vevents = <<>> => json_array_size(jsevents) = 0

\* the recurrence id of a VEVENT as the key of its override
OverrideKey(ical, xi) ==
    localdate_from_icaltime_r(icalcomponent_get_recurrenceid(ical.comps[xi]))

\* The exceptions of the master at position ci: the other VEVENTs that have
\* its UID and a RECURRENCE-ID that no later such VEVENT repeats.
ExceptionsOf(ical, ci) ==
    LET related(xi) ==
            /\ xi # ci
            /\ ical.comps[xi].kind = "VEVENT"
            /\ icalcomponent_get_uid(ical.comps[xi])
                 = icalcomponent_get_uid(ical.comps[ci])
    IN { xi \in DOMAIN ical.comps :
           /\ related(xi)
           /\ icalcomponent_get_first_property(ical.comps[xi],
                                               "RECURRENCE-ID") # NULL
           /\ \A xj \in DOMAIN ical.comps :
                (related(xj) /\ OverrideKey(ical, xj) = OverrideKey(ical, xi))
                => xj <= xi }

\* the properties of a VEVENT other than the named ones
PropsOtherThan(comp, names) ==
    SelectSeq(comp.props, LAMBDA p : p.name \notin names)

\* whether the exception at xi differs from the master at ci only in SUMMARY,
\* and in the RECURRENCE-ID and DTSTART that make it an instance of it
DiffersOnlyInSummary(ical, ci, xi) ==
    /\ PropsOtherThan(ical.comps[xi], {"SUMMARY", "DTSTART", "RECURRENCE-ID"})
         = PropsOtherThan(ical.comps[ci], {"SUMMARY", "DTSTART"})
    /\ icalcomponent_get_text(ical.comps[xi], "SUMMARY")
         # icalcomponent_get_text(ical.comps[ci], "SUMMARY")
    /\ icalcomponent_get_text(ical.comps[xi], "SUMMARY") # NULL

\* the patch of the exception at xi in the event converted from the master
PatchOf(event, ical, xi) ==
    json_object_get(json_object_get(event, "recurrenceOverrides"),
                    OverrideKey(ical, xi))

\* what C8 says of the event converted from the master at ci
PatchesMinimal(event, ical, ci) ==
    \A xi \in ExceptionsOf(ical, ci) :
      LET patch == PatchOf(event, ical, xi)
          r == OverrideKey(ical, xi)
          ex == calendarevent_from_ical(
                    [wantprops |-> NULL, master |-> [idx |-> ci]],
                    ical, xi, "differ")
      IN /\ json_is_object(patch)
         /\ \A key \in DOMAIN patch.o :
              /\ json_object_get(ex, key) = patch.o[key]
              /\ json_object_get(event, key) # json_object_get(ex, key)
         /\ DiffersOnlyInSummary(ical, ci, xi) =>
              /\ DOMAIN patch.o \subseteq {"title", "start"}
              /\ json_object_get(patch, "title")
                   = icalcomponent_get_text(ical.comps[xi], "SUMMARY")
              /\ "start" \in DOMAIN patch.o =>
                   json_object_get(ex, "start") # json_string(r)

\* C8: for a master VEVENT and an exception VEVENT of the same UID with
\* RECURRENCE-ID r that differs from the master only in SUMMARY,
\* recurrenceOverrides[r] is exactly the title of the exception, plus start
\* only when the start of the exception differs from r; and no patch has a
\* key whose value is the same in the master and in the exception.
C8_PatchMinimal ==
    pc = "tojmap_all" =>
        \A i \in DOMAIN jsevents.a :
          LET ci == tojmap_todo(vcalendar)[i]
          IN icalcomponent_get_uid(vcalendar.comps[ci]) # NULL
             => PatchesMinimal(jsevents.a[i], vcalendar, ci)

\* a master and an exception that differs only in SUMMARY have been
\* converted, and the patch is the title alone
C8_Witness ==
    /\ pc = "tojmap_all"
    /\ \E i \in DOMAIN jsevents.a :
         LET ci == tojmap_todo(vcalendar)[i]
         IN /\ icalcomponent_get_uid(vcalendar.comps[ci]) # NULL
            /\ \E xi \in ExceptionsOf(vcalendar, ci) :
                 /\ DiffersOnlyInSummary(vcalendar, ci, xi)
                 /\ PatchOf(jsevents.a[i], vcalendar, xi)
                      = json_object([title |-> icalcomponent_get_text(
                                        vcalendar.comps[xi], "SUMMARY")])

\* the generators of the VEVENTs with ATTENDEEs
AttendeeAnswers ==
    UNION { {f \in [1..m -> (0 - 1)..m] : \A i \in 1..m : f[i] # i} :
              m \in 0..MaxAttendees }

\* The ATTENDEE at the end of the DELEGATED-TO chain of ATTENDEE i, 0 when
\* the chain does not end within n steps.
RECURSIVE ChainEnd(_, _, _)
ChainEnd(to, i, n) ==
    IF to[i] <= 0 THEN i
    ELSE IF n = 0 THEN 0
    ELSE ChainEnd(to, to[i], n - 1)

\* C9: a delegator has the participationStatus of the ATTENDEE at the end of
\* its DELEGATED-TO chain, for chains of any length up to the bound; so for
\* A delegating to B, B delegating to C, and C accepted, all three are
\* "accepted".
C9_DelegatorInherits ==
    pc = "tojmap" =>
        \A to \in AttendeeAnswers, has_orga \in BOOLEAN :
          vcalendar = VCalendar(<<AttendeeVEvent(Len(to), to, has_orga)>>) =>
            \A i \in DOMAIN to :
              LET end == ChainEnd(to, i, MaxAttendees)
                  p == json_object_get(
                           json_object_get(jsevent, "participants"),
                           "p" \o IntToStr(i))
              IN end # 0 =>
                   json_object_get(p, "participationStatus")
                     = json_string(IF to[end] = 0 THEN "accepted"
                                   ELSE "declined")

\* C11: in every event that to_jmap produces without a property filter,
\* replyTo is non-null if and only if participants is non-null, whether the
\* VEVENT has an ORGANIZER or not and however many ATTENDEEs it has.
C11_ReplyToIffParticipants ==
    (pc = "tojmap" /\ jsevent # NULL) =>
        (JNOTNULL(json_object_get(jsevent, "replyTo"))
           <=> JNOTNULL(json_object_get(jsevent, "participants")))

----------------------------------------------------------------------------
(* JSCalendar to iCalendar: the conversion context                         *)
(* The write context is the record of the fields of context_t.  ctx->err   *)
(* points to the caller's jmapical_err_t: it is the field err, which the   *)
(* caller reads back when the conversion returns.  A name that the C code  *)
(* may pass as NULL is NULL or [s |-> name].                               *)

JMAPICAL_READ_MODE == 0

JMAPICAL_WRITE_MODE == 1

JMAPICAL_EXC_MODE == 256

\* mode & JMAPICAL_EXC_MODE
mode_is_exc(mode) == (mode \div JMAPICAL_EXC_MODE) % 2 = 1

\* mode | JMAPICAL_EXC_MODE
mode_or_exc(mode) ==
    IF mode_is_exc(mode) THEN mode ELSE mode + JMAPICAL_EXC_MODE

context_new(wantprops, err, mode) ==
    [err |-> err, mode |-> mode, invalid |-> <<>>,
     propstr |-> <<>>, wantprops |-> wantprops, master |-> NULL,
     tzid_start |-> NULL, is_allday |-> FALSE, uid |-> NULL,
     tzstart_old |-> NULL, tzstart |-> NULL,
     tzend_old |-> NULL, tzend |-> NULL, segv |-> FALSE, aborted |-> FALSE]

beginprop_key(ctx, name, key) ==
    [ctx EXCEPT !.propstr =
        Append(@, json_pointer_encode(name) \o "/" \o json_pointer_encode(key))]

beginprop_idx(ctx, name, idx) ==
    [ctx EXCEPT !.propstr =
        Append(@, json_pointer_encode(name) \o "/" \o IntToStr(idx))]

beginprop(ctx, name) ==
    [ctx EXCEPT !.propstr = Append(@, json_pointer_encode(name))]

\* the assertion holds on every path: each endprop follows a beginprop
endprop(ctx) == [ctx EXCEPT !.propstr = SubSeq(@, 1, Len(@) - 1)]

\* The stack of property paths after alerts_from_ical, which begins the
\* path of each alarm that it converts, the last VALARM first, and ends the
\* path only of an alarm that it skips for its RELATED.
RECURSIVE alerts_from_ical_propstr(_, _)
alerts_from_ical_propstr(propstr, alarms) ==
    IF alarms = <<>> THEN propstr
    ELSE alerts_from_ical_propstr(
             beginprop_key([propstr |-> propstr], "alerts",
                           alert_id_from_ical(alarms[Len(alarms)])).propstr,
             SubSeq(alarms, 1, Len(alarms) - 1))

\* The stack of property paths when calendarevent_from_ical returns: the
\* links and the locations end each path that they begin.
calendarevent_from_ical_propstr(c, comp) ==
    IF wantprop(c, "alerts")
    THEN alerts_from_ical_propstr(<<>>, alerts_from_ical_alarms(comp))
    ELSE <<>>

\* the stack of the context of the event that jmapical_tojmap returns
jmapical_tojmap_propstr(ical, props) ==
    calendarevent_from_ical_propstr([wantprops |-> props],
                                    ical.comps[tojmap_todo(ical)[1]])

\* the elements of a path joined by "/"
RECURSIVE JoinPath(_)
JoinPath(str) ==
    IF Len(str) = 1 THEN str[1]
    ELSE JoinPath(SubSeq(str, 1, Len(str) - 1)) \o "/" \o str[Len(str)]

encodeprop(ctx, name) ==
    IF name = NULL /\ ctx.propstr = <<>> THEN NULL
    ELSE json_string(JoinPath(IF name # NULL
                              THEN beginprop(ctx, name.s).propstr
                              ELSE ctx.propstr))

\* ctx->invalid is a JSON object whose values are all null.  It is the
\* sequence of its keys in the order in which they were first set, which is
\* the order in which json_object_foreach visits them.
invalid_set(invalid, key) ==
    IF \E i \in DOMAIN invalid : invalid[i] = key THEN invalid
    ELSE Append(invalid, key)

\* json_object_set_new refuses a NULL key
invalidprop(ctx, name) ==
    LET set(tmp) ==
            IF tmp = NULL THEN ctx
            ELSE [ctx EXCEPT !.invalid = invalid_set(@, tmp.s)]
    IN set(encodeprop(ctx, name))

RECURSIVE invalid_append(_, _, _)
invalid_append(invalid, prefix, raws) ==
    IF raws = <<>> THEN invalid
    ELSE invalid_append(invalid_set(invalid, prefix \o "/" \o Head(raws).s),
                        prefix, Tail(raws))

invalidprop_append(ctx, props) ==
    [ctx EXCEPT !.invalid = invalid_append(@, encodeprop(ctx, NULL).s, props.a)]

have_invalid_props(ctx) == Len(ctx.invalid) > 0

get_invalid_props(ctx) ==
    IF ctx.invalid = <<>> THEN NULL
    ELSE json_array([i \in DOMAIN ctx.invalid |-> json_string(ctx.invalid[i])])

\* whether json_unpack_ex succeeds for the formats that readprop is used
\* with: "s" a string, "b" a boolean, "i" an integer, "o" any value
json_unpack_ok(jval, fmt) ==
    CASE fmt = "s" -> json_is_string(jval)
      [] fmt = "b" -> json_is_boolean(jval)
      [] fmt = "i" -> json_is_integer(jval)
      [] OTHER -> TRUE

\* the value that readprop returns
readprop_r(from, name, is_mandatory, fmt) ==
    LET r(jval) ==
            IF jval = NULL THEN (IF is_mandatory THEN 0 - 1 ELSE 0)
            ELSE IF json_unpack_ok(jval, fmt) THEN 1 ELSE 0 - 2
    IN r(json_object_get(from, name))

\* the context that readprop leaves; what it stores in dst is
\* json_object_get(from, name) whenever readprop_r is positive
readprop(ctx, from, name, is_mandatory, fmt) ==
    IF readprop_r(from, name, is_mandatory, fmt) < 0
    THEN invalidprop(ctx, json_string(name))
    ELSE ctx

\* icalcomponent_set_uid and its like: the value of the first property of
\* that name is replaced; the property is added when there is none
icalcomponent_set_value(comp, name, val) ==
    IF \E i \in DOMAIN comp.props : comp.props[i].name = name
    THEN LET first == CHOOSE i \in DOMAIN comp.props :
                        /\ comp.props[i].name = name
                        /\ \A j \in 1..(i - 1) : comp.props[j].name # name
         IN [comp EXCEPT !.props[first].val = val]
    ELSE icalcomponent_add_property(comp, icalproperty_new(name, val))

utcdate_to_icaltime(src) ==
    IF \E e \in StrptimeTable : e.str \o "Z" = src
    THEN localdate_to_icaltime(
             (CHOOSE e \in StrptimeTable : e.str \o "Z" = src).str,
             icaltimezone_get_utc_timezone, FALSE)
    ELSE NULL

dtprop_to_ical(comp, dt, tz, purge, kind) ==
    LET c1 == IF purge THEN remove_icalprop(comp, kind) ELSE comp
        c2 == CASE kind = "DTEND" -> remove_icalprop(c1, "DURATION")
                [] kind = "DURATION" -> remove_icalprop(c1, "DTEND")
                [] OTHER -> c1
        prop == icalproperty_new(kind, dt)
    IN icalcomponent_add_property(c2,
           IF tz # NULL /\ ~dt.is_utc
           THEN icalproperty_add_parameter(prop, "TZID",
                                           icaltimezone_get_location(tz))
           ELSE prop)

----------------------------------------------------------------------------
(* JSCalendar to iCalendar: start, time zone and duration                  *)
(* A converter takes and returns the record w of what it works on: ctx the *)
(* context, comp the VEVENT, and ical the parent VCALENDAR without comp.   *)

xjmapid_to_ical(prop, id) == icalproperty_add_parameter(prop, "X-JMAP-ID", id)

location_is_endtimezone(loc) ==
    LET rel == json_string_value(json_object_get(loc, "rel"))
    IN IF rel = NULL THEN FALSE
       ELSE json_object_get(loc, "timeZone") # NULL /\ rel.s = "end"

\* icaltime_add, for a duration that ends within the month of t
icaltime_add(t, dur) ==
    LET secs == (IF t.is_date THEN 0
                 ELSE t.hour * 3600 + t.minute * 60 + t.second) + dur.secs
        sod == secs % 86400
    IN [t EXCEPT !.day = t.day + secs \div 86400,
                 !.hour = IF t.is_date THEN 0 ELSE sod \div 3600,
                 !.minute = IF t.is_date THEN 0 ELSE (sod % 3600) \div 60,
                 !.second = IF t.is_date THEN 0 ELSE sod % 60]

\* a test whose invalidprop is left out
invalidprop_never(cond, ctx, name) == ctx

\* "if (cond) invalidprop(ctx, name)"
invalidprop_if(cond, ctx, name) ==
    IF cond THEN invalidprop(ctx, json_string(name)) ELSE ctx

\* The context after "Determine current timezone" and "Read new timezone".
startend_tzstart(ctx, comp, event) ==
    LET old(tzid) == IF tzid # NULL THEN tz_from_tzid(tzid) ELSE NULL
        new(timeZone, pe) ==
            IF timeZone # NULL /\ json_is_null(timeZone) THEN NULL
            ELSE IF pe > 0 THEN tz_from_tzid(timeZone)
            ELSE IF pe = 0 THEN old(tzid_from_ical(comp, "DTSTART"))
            ELSE ctx.tzstart
        read(timeZone, pe, tzstart) ==
            [(IF timeZone # NULL /\ json_is_null(timeZone) THEN ctx
              ELSE invalidprop_if(
                       pe > 0 /\ tzstart = NULL,
                       readprop(ctx, event, "timeZone", ~ctx.is_allday, "s"),
                       "timeZone"))
             EXCEPT !.tzstart = tzstart, !.tzstart_old = tzstart]
    IN read(json_object_get(event, "timeZone"),
            readprop_r(event, "timeZone", ~ctx.is_allday, "s"),
            new(json_object_get(event, "timeZone"),
                readprop_r(event, "timeZone", ~ctx.is_allday, "s")))

\* endzoneid: the first location with a time zone and rel=end
startend_endzoneid(event) ==
    LET first(ends) == IF ends = <<>> THEN NULL ELSE json_string(Head(ends))
        pick(locations) ==
            IF ~JNOTNULL(locations) THEN NULL
            ELSE first(SelectSeq(
                           json_object_keys(locations),
                           LAMBDA id : location_is_endtimezone(locations.o[id])))
    IN pick(json_object_get(event, "locations"))

\* The context after "Determine current end timezone" and "Read new end
\* timezone".
startend_tzend(ctx, comp, event, endzoneid) ==
    LET old(tzid) ==
            IF tzid # NULL THEN tz_from_tzid(tzid) ELSE ctx.tzstart_old
        zone(c, timeZone, tzid) ==
            IF json_is_null(timeZone) THEN [c EXCEPT !.tzend = NULL]
            ELSE IF tzid # NULL THEN [c EXCEPT !.tzend = tz_from_tzid(tzid)]
            ELSE invalidprop(c, json_string("timeZone"))
        both(c) ==
            invalidprop_if((c.tzstart = NULL) # (c.tzend = NULL), c, "timeZone")
        floating(c) ==
            invalidprop_if(c.is_allday /\ c.tzend # NULL, c, "timeZone")
        \* the body of the loop, for the location that it picks
        location(c, timeZone) ==
            endprop(floating(both(zone(
                beginprop_key(c, "locations", endzoneid.s),
                timeZone, json_string_value(timeZone)))))
        new(c, locations) ==
            IF JNOTNULL(locations)
            THEN IF endzoneid = NULL THEN c
                 ELSE location(c, json_object_get(locations.o[endzoneid.s],
                                                  "timeZone"))
            ELSE IF locations # NULL THEN [c EXCEPT !.tzend = NULL]
            ELSE [c EXCEPT !.tzend = c.tzend_old]
        last(c) ==
            [c EXCEPT !.tzend_old = IF endzoneid # NULL THEN c.tzend
                                    ELSE c.tzstart,
                      !.tzend = IF endzoneid = NULL THEN c.tzstart ELSE @]
    IN last(new([ctx EXCEPT !.tzend_old = old(tzid_from_ical(comp, "DTEND"))],
                json_object_get(event, "locations")))

\* dur, as "Read new duration" leaves it
startend_dur(event) ==
    IF readprop_r(event, "duration", FALSE, "s") > 0
    THEN icaldurationtype_from_string(json_object_get(event, "duration").s)
    ELSE icaldurationtype_null_duration

\* the context after "Read new duration"
startend_duration(ctx, event, dur) ==
    LET bad(c) ==
            invalidprop_if(readprop_r(event, "duration", FALSE, "s") > 0
                           /\ icaldurationtype_is_bad_duration(dur),
                           c, "duration")
        allday(c) ==
            invalidprop_if(c.is_allday /\ ~icaldurationtype_is_bad_duration(dur)
                           /\ dur.hms,
                           c, "duration")
    IN allday(bad(readprop(ctx, event, "duration", FALSE, "s")))

\* what localdate_to_icaltime makes of the new start, NULL if there is none
startend_parsed(ctx, event) ==
    IF readprop_r(event, "start", TRUE, "s") > 0
    THEN localdate_to_icaltime(json_object_get(event, "start").s,
                               ctx.tzstart, ctx.is_allday)
    ELSE NULL

\* dtstart, as "Read new start" leaves it
startend_dtstart(ctx, comp, event) ==
    OrElse(startend_parsed(ctx, event), icalcomponent_get_dtstart(comp))

\* the context after "Read new start"
startend_start(ctx, event) ==
    invalidprop_if(readprop_r(event, "start", TRUE, "s") > 0
                   /\ startend_parsed(ctx, event) = NULL,
                   readprop(ctx, event, "start", TRUE, "s"), "start")

\* the context when all of the event is read
startend_read(ctx, comp, event, endzoneid, dur) ==
    startend_start(
        startend_duration(
            startend_tzend(startend_tzstart(ctx, comp, event),
                           comp, event, endzoneid),
            event, dur),
        event)

\* the DTEND and the DURATION of a VEVENT, both
startend_rebuild_both(ctx, comp, dtstart, dur, endzoneid) ==
    icalcomponent_set_value(
        dtprop_to_ical(dtprop_to_ical(comp, dtstart, ctx.tzstart, TRUE, "DTSTART"),
                       dtstart, ctx.tzstart, TRUE, "DTEND"),
        "DURATION", dur)

\* "Purge and rebuild start and end"
startend_rebuild(ctx, comp, dtstart, dur, endzoneid) ==
    LET start(k) == dtprop_to_ical(k, dtstart, ctx.tzstart, TRUE, "DTSTART")
        end(k) ==
            dtprop_to_ical(
                k, icaltime_convert_zones(icaltime_add(dtstart, dur),
                                          ctx.tzstart, ctx.tzend),
                ctx.tzend, TRUE, "DTEND")
        id(k) ==
            [k EXCEPT !.props[Len(k.props)] = xjmapid_to_ical(@, endzoneid.s)]
        purged == remove_icalprop(remove_icalprop(remove_icalprop(
                      comp, "DTSTART"), "DTEND"), "DURATION")
    IN IF ctx.tzstart # ctx.tzend THEN id(end(start(purged)))
       ELSE icalcomponent_set_value(start(purged), "DURATION", dur)

\* "assert((ctx->tzstart != NULL) == (ctx->tzend != NULL))": the field
\* aborted of the context records that the condition was false
startend_asserted(ctx) ==
    IF (ctx.tzstart # NULL) = (ctx.tzend # NULL) THEN ctx
    ELSE [ctx EXCEPT !.aborted = TRUE]

\* the VEVENT is left as it is when a property is invalid
startend_bail_out(w, ctx, event, endzoneid, dur) ==
    IF have_invalid_props(ctx) THEN [w EXCEPT !.ctx = ctx]
    ELSE [w EXCEPT
            !.ctx = startend_asserted(ctx),
            !.comp = startend_rebuild(
                         ctx, @, startend_dtstart(ctx, w.comp, event),
                         dur, endzoneid)]

startend_to_ical(w, event) ==
    startend_bail_out(
        w,
        startend_read(w.ctx, w.comp, event, startend_endzoneid(event),
                      startend_dur(event)),
        event, startend_endzoneid(event), startend_dur(event))

----------------------------------------------------------------------------
(* JSCalendar to iCalendar: participants                                   *)
(* The converters of a participant take and return q: ctx the context,     *)
(* prop the ATTENDEE being built and orga the ORGANIZER of the VEVENT.     *)

\* the characters that is_valid_jmapid lets pass
JmapIdChars ==
    {"0", "1", "2", "3", "4", "5", "6", "7", "8", "9"}
    \cup {"a", "b", "c", "d", "e", "f", "g", "h", "i", "j", "k", "l", "m",
          "n", "o", "p", "q", "r", "s", "t", "u", "v", "w", "x", "y", "z"}
    \cup {"A", "B", "C", "D", "E", "F", "G", "H", "I", "J", "K", "L", "M",
          "N", "O", "P", "Q", "R", "S", "T", "U", "V", "W", "X", "Y", "Z"}
    \cup {"-", "_"}

\* The loop ends at i, the end of s or 256, unless a character before i
\* fails; the id is valid if i is the end of s and s is not empty.
is_valid_jmapid(s) ==
    LET i == IF Len(s) < 256 THEN Len(s) ELSE 256
    IN IF \E j \in 1..i : SubSeq(s, j, j) \notin JmapIdChars THEN FALSE
       ELSE i > 0 /\ i = Len(s)

\* is_valid_rsvpmethod, on the methods of the input universe
is_valid_rsvpmethod(s) == s \notin {"", "x-1"}

\* ucase, on the strings of the input universe
ucase(s) ==
    CASE s = "individual" -> "INDIVIDUAL"
      [] s = "group" -> "GROUP"
      [] s = "resource" -> "RESOURCE"
      [] s = "location" -> "LOCATION"
      [] s = "needs-action" -> "NEEDS-ACTION"
      [] s = "accepted" -> "ACCEPTED"
      [] s = "declined" -> "DECLINED"
      [] s = "tentative" -> "TENTATIVE"
      [] s = "daily" -> "DAILY"
      [] s = "weekly" -> "WEEKLY"
      [] s = "monthly" -> "MONTHLY"
      [] s = "yearly" -> "YEARLY"
      [] s = "mo" -> "MO"
      [] s = "tu" -> "TU"
      [] s = "su" -> "SU"
      [] s = "forward" -> "FORWARD"
      [] s = "backward" -> "BACKWARD"
      [] s = "omit" -> "OMIT"
      [] s = "gregorian" -> "GREGORIAN"
      [] OTHER -> s

\* xstrdup of a char* that is not NULL
xstrdup(str) == [s |-> str.s]

\* the component with its first property of that name replaced
icalcomponent_set_first_property(comp, name, prop) ==
    LET i == CHOOSE i \in DOMAIN comp.props :
                 /\ comp.props[i].name = name
                 /\ \A j \in 1..(i - 1) : comp.props[j].name # name
    IN [comp EXCEPT !.props[i] = prop]

RECURSIVE participant_roles_invalid(_, _, _)
participant_roles_invalid(ctx, roles, keys) ==
    IF keys = <<>> THEN ctx
    ELSE participant_roles_invalid(
             IF roles.o[Head(keys)] # json_true
             THEN endprop(invalidprop(beginprop_key(ctx, "roles", Head(keys)),
                                      NULL))
             ELSE ctx,
             roles, Tail(keys))

RECURSIVE participant_xroles_to_ical(_, _, _)
participant_xroles_to_ical(prop, keys, ical_role) ==
    IF keys = <<>> THEN prop
    ELSE participant_xroles_to_ical(
             IF lcase(Head(keys)) = "chair" /\ ical_role = "REQ-PARTICIPANT"
             THEN icalproperty_add_parameter(prop, "ROLE", "CHAIR")
             ELSE set_icalxparam(prop, "X-JMAP-ROLE", Head(keys), FALSE),
             Tail(keys), ical_role)

participant_roles_to_ical(q, roles, ical_role, is_replyto) ==
    LET ctx1 == participant_roles_invalid(q.ctx, roles, json_object_keys(roles))
        has_owner == json_object_get(roles, "owner") = json_true
        has_chair == json_object_get(roles, "chair") = json_true
        has_attendee == json_object_get(roles, "attendee") = json_true
        xroles_count ==
            json_object_size(roles)
            - (IF has_chair /\ ical_role = "REQ-PARTICIPANT" THEN 1 ELSE 0)
            - (IF has_owner /\ is_replyto THEN 1 ELSE 0)
            - (IF has_attendee THEN 1 ELSE 0)
    IN IF json_object_size(roles) = 0
       THEN [q EXCEPT !.ctx = invalidprop(@, json_string("roles"))]
       ELSE [q EXCEPT
               !.ctx = ctx1,
               !.prop = IF xroles_count = 0
                        THEN IF has_chair
                             THEN icalproperty_add_parameter(@, "ROLE", "CHAIR")
                             ELSE @
                        ELSE participant_xroles_to_ical(
                                 @, json_object_keys(roles), ical_role)]

\* participant_equals after its special case of sendTo: the participant with
\* sendTo and the default values deleted
participant_without_defaults(jpart) ==
    LET str(k) == json_string_value(json_object_get(jpart, k))
        default(k) ==
            \/ json_is_null(jpart.o[k])
            \/ CASE k = "sendTo" -> TRUE
                 [] k = "name" -> str(k) = NULL \/ str(k).s = ""
                 [] k = "participationStatus" ->
                      str(k) # NULL /\ str(k).s = "needs-action"
                 [] k = "attendance" -> str(k) # NULL /\ str(k).s = "required"
                 [] k = "expectReply" -> jpart.o[k] # json_true
                 [] k = "scheduleSequence" ->
                      ~json_is_integer(jpart.o[k]) \/ jpart.o[k].i = 0
                 [] OTHER -> FALSE
    IN json_object([k \in {x \in DOMAIN jpart.o : ~default(x)} |-> jpart.o[k]])

\* the sendTo that participant_equals compares
participant_equals_sendTo(jpart) ==
    LET jsendTo == json_object_get(jpart, "sendTo")
        jemail == json_object_get(jpart, "email")
    IN IF (jsendTo = NULL \/ jsendTo = json_null) /\ json_is_string(jemail)
       THEN json_object([imip |-> json_string("mailto:" \o jemail.s)])
       ELSE jsendTo

\* the participant as participant_equals leaves it: the sendTo of the
\* special case is stored in the participant itself
participant_equals_jpart(jpart) ==
    LET jsendTo == json_object_get(jpart, "sendTo")
        jemail == json_object_get(jpart, "email")
    IN IF (jsendTo = NULL \/ jsendTo = json_null) /\ json_is_string(jemail)
       THEN json_object_set(jpart, "sendTo", participant_equals_sendTo(jpart))
       ELSE jpart

participant_equals(jpart1, jpart2) ==
    LET uri(j) == json_string_value(j)
        match(juri1, juri2) ==
            /\ juri2 # NULL
            /\ uri(juri1) # NULL
            /\ uri(juri2) # NULL
            /\ match_uri(uri(juri1).s, uri(juri2).s)
        same(jsendTo1, jsendTo2) ==
            /\ json_object_size(jsendTo1) = json_object_size(jsendTo2)
            /\ (JNOTNULL(jsendTo1) /\ json_is_object(jsendTo1)) =>
                 (\A method \in DOMAIN jsendTo1.o :
                     match(jsendTo1.o[method],
                           json_object_get(jsendTo2, method)))
    IN /\ same(participant_equals_sendTo(jpart1),
               participant_equals_sendTo(jpart2))
       /\ participant_without_defaults(jpart1)
              = participant_without_defaults(jpart2)

RECURSIVE participant_sendTo_to_ical(_, _, _, _)
participant_sendTo_to_ical(q, sendTo, keys, set_rsvp_uris) ==
    IF keys = <<>> THEN q
    ELSE LET key == Head(keys)
             jval == sendTo.o[key]
             q1 == IF ~is_valid_rsvpmethod(key) \/ ~json_is_string(jval)
                   THEN [q EXCEPT !.ctx = invalidprop(@, json_string(key))]
                   ELSE IF ~set_rsvp_uris THEN q
                   ELSE [q EXCEPT !.prop = set_icalxparam(
                             @, "X-JMAP-RSVP-URI", key \o ":" \o jval.s, FALSE)]
         IN participant_sendTo_to_ical(q1, sendTo, Tail(keys), set_rsvp_uris)

\* The loops over delegatedTo, delegatedFrom and memberOf: name is the
\* JSCalendar property, refs its value, and param the iCalendar parameter
\* that takes the calendar address of each participant it names.
RECURSIVE participant_refs_to_ical(_, _, _, _, _, _, _)
participant_refs_to_ical(q, name, param, refs, keys, participants, caladdress_by_participant_id) ==
    IF keys = <<>> THEN q
    ELSE LET id == Head(keys)
             uri == hash_lookup(id, caladdress_by_participant_id)
             q1 == IF /\ is_valid_jmapid(id)
                      /\ json_object_get(participants, id) # NULL
                      /\ refs.o[id] = json_true
                   THEN IF uri # NULL
                        THEN [q EXCEPT !.prop = icalproperty_add_parameter(
                                                    @, param, uri.s)]
                        ELSE q
                   ELSE [q EXCEPT !.ctx = endprop(invalidprop(
                             beginprop_key(@, name, id), NULL))]
         IN participant_refs_to_ical(q1, name, param, refs, Tail(keys),
                                     participants, caladdress_by_participant_id)

RECURSIVE participant_linkIds_to_ical(_, _, _, _)
participant_linkIds_to_ical(q, linkIds, keys, links) ==
    IF keys = <<>> THEN q
    ELSE LET id == Head(keys)
             q1 == IF \/ ~is_valid_jmapid(id)
                      \/ json_object_get(links, id) = NULL
                      \/ linkIds.o[id] # json_true
                   THEN [q EXCEPT !.ctx = endprop(invalidprop(
                             beginprop_key(@, "linkIds", id), NULL))]
                   ELSE [q EXCEPT !.prop = set_icalxparam(
                             @, "X-JMAP-LINKID", id, FALSE)]
         IN participant_linkIds_to_ical(q1, linkIds, Tail(keys), links)

\* one of the branches "else if (JNOTNULL(x)) invalidprop(ctx, name)"
invalid_if_notnull(q, jval, name) ==
    IF JNOTNULL(jval) THEN [q EXCEPT !.ctx = invalidprop(@, json_string(name))]
    ELSE q

\* The ATTENDEE and the ORGANIZER with which participant_to_ical starts.
participant_to_ical_new(ctx, caladdress, id, is_orga, orga) ==
    [ctx |-> ctx,
     prop |-> set_icalxparam(icalproperty_new("ATTENDEE", caladdress),
                             "X-JMAP-ID", id, TRUE),
     orga |-> IF is_orga THEN set_icalxparam(orga, "X-JMAP-ID", id, TRUE)
              ELSE orga]

\* The blocks of participant_to_ical from name to scheduleUpdated, each a
\* step from q to q.
participant_to_ical_params(q, jpart, participants, links, is_orga, caladdress_by_participant_id) ==
    LET get(key) == json_object_get(jpart, key)
        param(v, key, value) ==
            [v EXCEPT !.prop = icalproperty_add_parameter(@, key, value)]
        xparam(v, key, value, purge) ==
            [v EXCEPT !.prop = set_icalxparam(@, key, value, purge)]
        \* a parameter of the ATTENDEE that the ORGANIZER gets as well
        both(v, key, value) ==
            [v EXCEPT
               !.prop = icalproperty_add_parameter(@, key, value),
               !.orga = IF is_orga
                        THEN icalproperty_add_parameter(@, key, value) ELSE @]
        name(v, jname) ==
            IF json_is_string(jname) THEN both(v, "CN", jname.s)
            ELSE invalid_if_notnull(v, jname, "name")
        sendTo(v, val) ==
            IF json_object_size(val) > 0
            THEN [participant_sendTo_to_ical(
                      [v EXCEPT !.ctx = beginprop(@, "sendTo")],
                      val, json_object_keys(val),
                      json_object_size(val) > 1
                      \/ Head(json_object_keys(val)) \notin {"imip", "other"})
                  EXCEPT !.ctx = endprop(@)]
            ELSE invalid_if_notnull(v, val, "sendTo")
        email(v, jemail) ==
            IF json_is_string(jemail)
            THEN IF ~match_uri(v.prop.val.s, jemail.s)
                 THEN both(v, "EMAIL", jemail.s) ELSE v
            ELSE invalid_if_notnull(v, jemail, "email")
        cutype(val) ==
            IF ucase(val.s) = "LOCATION" THEN "ROOM" ELSE ucase(val.s)
        kind(v, val) ==
            IF json_is_string(val)
            THEN IF cutype(val) \in {"INDIVIDUAL", "GROUP", "RESOURCE", "ROOM"}
                 THEN param(v, "CUTYPE", cutype(val)) ELSE v
            ELSE invalid_if_notnull(v, val, "kind")
        ical_role(val) ==
            IF ~json_is_string(val) THEN "REQ-PARTICIPANT"
            ELSE CASE lcase(val.s) = "optional" -> "OPT-PARTICIPANT"
                   [] lcase(val.s) = "none" -> "NON-PARTICIPANT"
                   [] OTHER -> "REQ-PARTICIPANT"
        attendance(v, val) ==
            IF json_is_string(val)
            THEN IF ical_role(val) # "REQ-PARTICIPANT"
                 THEN param(v, "ROLE", ical_role(val)) ELSE v
            ELSE invalid_if_notnull(v, val, "attendance")
        roles(v, val) ==
            IF json_object_size(val) > 0
            THEN participant_roles_to_ical(v, val, ical_role(get("attendance")),
                                           is_orga)
            ELSE IF val # NULL
                 THEN [v EXCEPT !.ctx = invalidprop(@, json_string("roles"))]
                 ELSE v
        locationId(v, val) ==
            IF json_is_string(val)
            THEN xparam(v, "X-JMAP-LOCATIONID", val.s, TRUE)
            ELSE invalid_if_notnull(v, val, "locationId")
        known(val) ==
            json_is_string(val)
            /\ ucase(val.s) \in {"NEEDS-ACTION", "ACCEPTED", "DECLINED",
                                 "TENTATIVE"}
        ps(val) == IF known(val) THEN ucase(val.s) ELSE "NONE"
        participationStatus(v, val) ==
            IF known(val) THEN param(v, "PARTSTAT", ps(val))
            ELSE IF json_is_string(val)
                 THEN [v EXCEPT !.ctx = invalidprop(
                           @, json_string("participationStatus"))]
                 ELSE invalid_if_notnull(v, val, "participationStatus")
        expectReply(v, val, partstat) ==
            IF json_is_boolean(val)
            THEN IF val = json_true
                 THEN param(IF partstat = "NONE"
                            THEN param(v, "PARTSTAT", "NEEDS-ACTION") ELSE v,
                            "RSVP", "TRUE")
                 ELSE param(v, "RSVP", "FALSE")
            ELSE invalid_if_notnull(v, val, "expectReply")
        \* delegatedTo, delegatedFrom and memberOf
        refs(v, key, parameter, val) ==
            IF json_object_size(val) > 0
            THEN participant_refs_to_ical(v, key, parameter, val,
                                          json_object_keys(val), participants,
                                          caladdress_by_participant_id)
            ELSE invalid_if_notnull(v, val, key)
        linkIds(v, val) ==
            IF json_object_size(val) > 0
            THEN participant_linkIds_to_ical(v, val, json_object_keys(val),
                                             links)
            ELSE invalid_if_notnull(v, val, "linkIds")
        scheduleSequence(v, val) ==
            IF json_is_integer(val) /\ val.i >= 0
            THEN xparam(v, "X-JMAP-SEQUENCE", IntToStr(val.i), FALSE)
            ELSE invalid_if_notnull(v, val, "scheduleSequence")
        dtstamp(v, time) ==
            IF time # NULL
            THEN xparam(v, "X-JMAP-DTSTAMP", icaltime_as_ical_string(time),
                        FALSE)
            ELSE [v EXCEPT !.ctx = invalidprop(
                      @, json_string("scheduleSequence"))]
        scheduleUpdated(v, val) ==
            IF json_is_string(val) THEN dtstamp(v, utcdate_to_icaltime(val.s))
            ELSE invalid_if_notnull(v, val, "scheduleSequence")
    IN scheduleUpdated(
         scheduleSequence(
           linkIds(
             refs(
               refs(
                 refs(
                   expectReply(
                     participationStatus(
                       locationId(
                         roles(
                           attendance(
                             kind(
                               email(
                                 sendTo(name(q, get("name")), get("sendTo")),
                                 get("email")),
                               get("kind")),
                             get("attendance")),
                           get("roles")),
                         get("locationId")),
                       get("participationStatus")),
                     get("expectReply"), ps(get("participationStatus"))),
                   "delegatedTo", "DELEGATED-TO", get("delegatedTo")),
                 "delegatedFrom", "DELEGATED-FROM", get("delegatedFrom")),
               "memberOf", "MEMBER", get("memberOf")),
             get("linkIds")),
           get("scheduleSequence")),
         get("scheduleUpdated"))

\* The end of participant_to_ical: the ORGANIZER stands for a participant
\* that is equal to it, any other participant gets its ATTENDEE.
participant_to_ical_add(comp, jpart, is_orga, q) ==
    LET organized(c) ==
            IF is_orga /\ participant_equals(
                              participant_from_icalorganizer(q.orga), jpart)
            THEN c
            ELSE icalcomponent_add_property(c, q.prop)
    IN [ctx |-> q.ctx,
        comp |-> organized(icalcomponent_set_first_property(
                               comp, "ORGANIZER", q.orga))]

\* is_orga of participant_to_ical
participant_is_orga(id, orga_uri, caladdress_by_participant_id) ==
    match_uri(hash_lookup(id, caladdress_by_participant_id).s, orga_uri.s)

\* the context and the VEVENT that participant_to_ical leaves
participant_to_ical(ctx, comp, id, jpart, participants, links, orga_uri, caladdress_by_participant_id) ==
    participant_to_ical_add(
        comp, jpart,
        participant_is_orga(id, orga_uri, caladdress_by_participant_id),
        participant_to_ical_params(
            participant_to_ical_new(
                ctx, hash_lookup(id, caladdress_by_participant_id), id,
                participant_is_orga(id, orga_uri, caladdress_by_participant_id),
                icalcomponent_get_first_property(comp, "ORGANIZER")),
            jpart, participants, links,
            participant_is_orga(id, orga_uri, caladdress_by_participant_id),
            caladdress_by_participant_id))

RECURSIVE replyTo_invalid(_, _, _)
replyTo_invalid(ctx, replyTo, keys) ==
    IF keys = <<>> THEN ctx
    ELSE replyTo_invalid(
             IF ~is_valid_rsvpmethod(Head(keys))
                \/ ~json_is_string(replyTo.o[Head(keys)])
             THEN invalidprop(ctx, json_string(Head(keys)))
             ELSE ctx,
             replyTo, Tail(keys))

\* the calendar address of a participant, NULL when it has none
participant_caladdress(jval) ==
    LET sendTo == json_object_get(jval, "sendTo")
    IN IF json_object_get(sendTo, "imip") # NULL
       THEN xstrdup(json_string_value(json_object_get(sendTo, "imip")))
       ELSE IF json_object_get(sendTo, "other") # NULL
            THEN xstrdup(json_string_value(json_object_get(sendTo, "imip")))
            ELSE IF json_object_size(sendTo) > 0
                 THEN xstrdup(json_string_value(
                          sendTo.o[Head(json_object_keys(sendTo))]))
                 ELSE IF json_object_get(jval, "email") # NULL
                      THEN json_string(mailaddr_to_uri(
                               json_object_get(jval, "email").s))
                      ELSE NULL

RECURSIVE orga_rsvp_uris(_, _, _)
orga_rsvp_uris(orga, replyTo, keys) ==
    IF keys = <<>> THEN orga
    ELSE orga_rsvp_uris(
             set_icalxparam(orga, "X-JMAP-RSVP-URI",
                            Head(keys) \o ":" \o replyTo.o[Head(keys)].s, FALSE),
             replyTo, Tail(keys))

\* the body of the loop over the participants, for the participant of key
\* key; ctx1 is the context after beginprop_key, and v is [ctx, comp]
participants_loop_body(v, ctx1, key, caladdress, participants, links, orga_uri, caladdress_by_participant_id) ==
    IF ~is_valid_jmapid(key)
    THEN [v EXCEPT !.ctx = endprop(invalidprop(ctx1, NULL))]
    ELSE IF caladdress = NULL
         THEN [v EXCEPT !.ctx = endprop(invalidprop(
                   invalidprop(ctx1, json_string("sendTo")),
                   json_string("email")))]
         ELSE [participant_to_ical(ctx1, v.comp, key, participants.o[key],
                                   participants, links, orga_uri,
                                   caladdress_by_participant_id)
               EXCEPT !.ctx = endprop(@)]

\* the loop over the participants
RECURSIVE participants_loop(_, _, _, _, _, _)
participants_loop(v, keys, participants, links, orga_uri, caladdress_by_participant_id) ==
    IF keys = <<>> THEN v
    ELSE participants_loop(
             participants_loop_body(
                 v, beginprop_key(v.ctx, "participants", Head(keys)),
                 Head(keys),
                 hash_lookup(Head(keys), caladdress_by_participant_id),
                 participants, links, orga_uri, caladdress_by_participant_id),
             Tail(keys), participants, links, orga_uri,
             caladdress_by_participant_id)

\* "Map participant ids to their iCalendar CALADDRESS"
participants_caladdresses(participants) ==
    [key \in {id \in DOMAIN participants.o :
                /\ is_valid_jmapid(id)
                /\ participant_caladdress(participants.o[id]) # NULL} |->
        participant_caladdress(participants.o[key])]

\* "Pick the ORGANIZER URI"
participants_orga_method(replyTo) ==
    IF json_object_get(replyTo, "imip") # NULL THEN "imip"
    ELSE IF json_object_get(replyTo, "other") # NULL THEN "other"
         ELSE Head(json_object_keys(replyTo))

participants_orga_uri(replyTo) ==
    json_string_value(json_object_get(replyTo,
                                      participants_orga_method(replyTo)))

\* "Create the ORGANIZER property"
participants_orga(replyTo) ==
    LET rsvp(orga) ==
            IF json_object_size(replyTo) > 1
               \/ participants_orga_method(replyTo) \notin {"imip", "other"}
            THEN orga_rsvp_uris(orga, replyTo, json_object_keys(replyTo))
            ELSE orga
    IN rsvp(icalproperty_new("ORGANIZER", participants_orga_uri(replyTo)))

\* participants_to_ical once the ATTENDEEs and the ORGANIZER are purged
participants_to_ical_props(w, replyTo, participants, links) ==
    LET empty(ctx, jval, name) ==
            invalidprop_if(JNOTNULL(jval) /\ json_object_size(jval) = 0,
                           ctx, name)
        checked(ctx) ==
            empty(empty(ctx, replyTo, "replyTo"), participants, "participants")
        parsed(ctx) ==
            endprop(replyTo_invalid(beginprop(ctx, "replyTo"), replyTo,
                                    json_object_keys(replyTo)))
        done(v) == [w EXCEPT !.comp = v.comp, !.ctx = v.ctx]
    IN IF JNOTNULL(replyTo) # JNOTNULL(participants)
       THEN [w EXCEPT !.ctx = invalidprop(
                                  invalidprop(checked(@), json_string("replyTo")),
                                  json_string("participants"))]
       ELSE IF ~JNOTNULL(replyTo) THEN [w EXCEPT !.ctx = checked(@)]
       \* With an empty replyTo orga_method and orga_uri are NULL:
       \* icalproperty_new_organizer(NULL) makes no property, and
       \* "strcmp(orga_method, "imip")" reads through NULL, which the
       \* field segv of the context records.  The participants of such an
       \* event of the universe are an empty object as well.
       ELSE IF json_object_size(replyTo) = 0
       THEN CASE json_object_size(participants) = 0 ->
                   [w EXCEPT !.ctx = [parsed(checked(@)) EXCEPT !.segv = TRUE]]
       ELSE done(participants_loop(
                     [ctx |-> parsed(checked(w.ctx)),
                      comp |-> icalcomponent_add_property(
                                   w.comp, participants_orga(replyTo))],
                     json_object_keys(participants), participants, links,
                     participants_orga_uri(replyTo),
                     participants_caladdresses(participants)))

\* The event as participants_to_ical leaves it: participant_to_ical calls
\* participant_equals on each participant that is the organizer.
participants_to_ical_event(event) ==
    LET replyTo == json_object_get(event, "replyTo")
        participants == json_object_get(event, "participants")
        compared(key) ==
            /\ is_valid_jmapid(key)
            /\ hash_lookup(key, participants_caladdresses(participants)) # NULL
            /\ participant_is_orga(key, participants_orga_uri(replyTo),
                                   participants_caladdresses(participants))
    IN IF JNOTNULL(replyTo) /\ JNOTNULL(participants)
       THEN json_object_set(
                event, "participants",
                json_object([key \in DOMAIN participants.o |->
                                IF compared(key)
                                THEN participant_equals_jpart(participants.o[key])
                                ELSE participants.o[key]]))
       ELSE event

participants_to_ical(w, event) ==
    participants_to_ical_props(
        [w EXCEPT !.comp = remove_icalprop(remove_icalprop(@, "ATTENDEE"),
                                           "ORGANIZER")],
        json_object_get(event, "replyTo"),
        json_object_get(event, "participants"),
        json_object_get(event, "links"))

----------------------------------------------------------------------------
(* JSCalendar to iCalendar: recurrence overrides                           *)

\* The events of the input universe have no relatedTo and no keywords, or
\* have them as JSON null: their converters then only purge what the VEVENT
\* holds.
relatedto_to_ical(w, relatedTo) ==
    CASE relatedTo = NULL \/ relatedTo = json_null ->
           [w EXCEPT !.comp = remove_icalprop(@, "RELATED-TO")]

keywords_to_ical(w, keywords) ==
    CASE json_is_null(keywords) ->
           [w EXCEPT !.comp = remove_icalprop(@, "CATEGORIES")]

\* the user that the request is served for: httpd_userid, and her address
\* in the calendar-user-address-set annotation, which the model takes to be
\* unset
httpd_userid == "cassandane"

\* the context after the block "pe = readprop(..., name, ...); if (pe > 0)
\* { if (!ok) invalidprop(ctx, name) }", where ok says whether the value that
\* was read is accepted
readprop_checked(ctx, from, name, is_mandatory, fmt, ok) ==
    IF readprop_r(from, name, is_mandatory, fmt) > 0 /\ ~ok
    THEN invalidprop(ctx, json_string(name))
    ELSE readprop(ctx, from, name, is_mandatory, fmt)

\* the string that readprop stores for name with the format "s", NULL when
\* it stores none
readprop_s(from, name) == json_string_value(json_object_get(from, name))

\* the names of the X- parameters and of the X- property of locations
JMAPICAL_XPARAM_CID == "X-JMAP-CID"

JMAPICAL_XPARAM_TITLE == "X-TITLE"

JMAPICAL_XPARAM_REL == "X-JMAP-REL"

JMAPICAL_XPARAM_DISPLAY == "X-JMAP-DISPLAY"

JMAPICAL_XPARAM_DESCRIPTION == "X-JMAP-DESCRIPTION"

JMAPICAL_XPARAM_TZID == "X-JMAP-TZID"

JMAPICAL_XPARAM_GEO == "X-JMAP-GEO"

JMAPICAL_XPARAM_LINKID == "X-JMAP-LINKID"

JMAPICAL_XPROP_LOCATION == "X-JMAP-LOCATION"

\* is_valid_regrel, on the relations of the input universe
is_valid_regrel(rel) == rel \notin {"", "Bad Rel"}

\* the context after the reads and the checks of one link, under the path
\* of the link
link_to_ical_ctx(ctx, link) ==
    LET optional(c, name) ==
            IF JNOTNULL(json_object_get(link, name))
            THEN readprop(c, link, name, FALSE, "s") ELSE c
        href(c) ==
            readprop_checked(c, link, "href", TRUE, "s",
                             readprop_s(link, "href").s # "")
        size(c) ==
            IF JNOTNULL(json_object_get(link, "size"))
            THEN readprop_checked(c, link, "size", FALSE, "i",
                                  json_object_get(link, "size").i >= 0)
            ELSE c
        rel(c) ==
            IF readprop_r(link, "rel", FALSE, "s") > 0
               /\ ~is_valid_regrel(readprop_s(link, "rel").s)
            THEN invalidprop(readprop(c, link, "rel", FALSE, "s"),
                             json_string("rel"))
            ELSE readprop(c, link, "rel", FALSE, "s")
    IN rel(size(optional(optional(optional(optional(href(ctx),
           "type"), "title"), "cid"), "display")))

\* "Build iCalendar property", for a link whose href was read
link_to_ical_prop(comp, id, link) ==
    LET str(name) ==
            IF JNOTNULL(json_object_get(link, name))
               /\ readprop_r(link, name, FALSE, "s") > 0
            THEN readprop_s(link, name) ELSE NULL
        rel == IF readprop_r(link, "rel", FALSE, "s") > 0
               THEN readprop_s(link, "rel") ELSE NULL
        size == IF JNOTNULL(json_object_get(link, "size"))
                   /\ readprop_r(link, "size", FALSE, "i") > 0
                THEN json_object_get(link, "size").i ELSE 0 - 1
        new == IF rel # NULL /\ rel.s = "describedby"
                  /\ icalcomponent_get_first_property(comp, "URL") = NULL
                  /\ json_object_size(link) = 2
               THEN icalproperty_new("URL", readprop_s(link, "href"))
               ELSE icalproperty_new("ATTACH", readprop_s(link, "href"))
        param(prop, c, name, val) ==
            IF c THEN icalproperty_add_parameter(prop, name, val) ELSE prop
        xparam(prop, c, name, val) ==
            IF c THEN set_icalxparam(prop, name, val, TRUE) ELSE prop
        type(prop) == param(prop, str("type") # NULL, "FMTTYPE", str("type").s)
        title(prop) == xparam(prop, str("title") # NULL, JMAPICAL_XPARAM_TITLE,
                              str("title").s)
        cid(prop) == xparam(prop, str("cid") # NULL, JMAPICAL_XPARAM_CID,
                            str("cid").s)
        sized(prop) == param(prop, size >= 0, "SIZE", IntToStr(size))
        related(prop) ==
            xparam(prop, rel # NULL /\ rel.s # "enclosure",
                   JMAPICAL_XPARAM_REL, rel.s)
        custom(prop) == set_icalxparam(prop, "X-JMAP-ID", id, TRUE)
        display(prop) ==
            xparam(prop, str("display") # NULL, JMAPICAL_XPARAM_DISPLAY,
                   str("display").s)
    IN display(custom(related(sized(cid(title(type(new)))))))

\* one pass of the loop of links_to_ical
link_to_ical(w, propname, id, link) ==
    IF ~is_valid_jmapid(id)
    THEN [w EXCEPT !.ctx = endprop(invalidprop(
                                 beginprop_key(@, propname, id), NULL))]
    ELSE [w EXCEPT
            !.ctx = endprop(link_to_ical_ctx(beginprop_key(@, propname, id),
                                             link)),
            !.comp =
                IF readprop_r(link, "href", TRUE, "s") > 0
                   /\ readprop_s(link, "href").s # ""
                   /\ ~have_invalid_props(
                          link_to_ical_ctx(beginprop_key(w.ctx, propname, id),
                                           link))
                THEN icalcomponent_add_property(
                         @, link_to_ical_prop(w.comp, id, link))
                ELSE @]

RECURSIVE links_loop(_, _, _, _)
links_loop(w, links, keys, propname) ==
    IF keys = <<>> THEN w
    ELSE links_loop(link_to_ical(w, propname, Head(keys), links.o[Head(keys)]),
                    links, Tail(keys), propname)

links_to_ical(w, links) ==
    links_loop([w EXCEPT !.comp = remove_icalprop(remove_icalprop(@, "ATTACH"),
                                                  "URL")],
               links, json_object_keys(links), "links")

\* the context that validate_location leaves, under the path of the
\* location
validate_location_ctx(ctx, loc, links) ==
    LET string(c, name) ==
            invalidprop_if(JNOTNULL(json_object_get(loc, name))
                           /\ ~json_is_string(json_object_get(loc, name)),
                           c, name)
        timeZone(c) ==
            invalidprop_if(
                IF json_is_string(json_object_get(loc, "timeZone"))
                THEN tz_from_tzid(json_object_get(loc, "timeZone")) = NULL
                ELSE JNOTNULL(json_object_get(loc, "timeZone")),
                c, "timeZone")
        linkids == json_object_get(loc, "linkIds")
        RECURSIVE linkid(_, _)
        linkid(c, ids) ==
            IF ids = <<>> THEN c
            ELSE linkid(
                     IF ~is_valid_jmapid(Head(ids))
                        \/ json_object_get(links, Head(ids)) = NULL
                        \/ linkids.o[Head(ids)] # json_true
                     THEN endprop(invalidprop(
                                      beginprop_key(c, "linkIds", Head(ids)),
                                      NULL))
                     ELSE c,
                     Tail(ids))
        linkIds(c) ==
            IF JNOTNULL(linkids) /\ json_is_object(linkids)
            THEN linkid(c, json_object_keys(linkids))
            ELSE invalidprop_if(JNOTNULL(linkids), c, "linkIds")
    IN IF json_object_size(loc) = 0
          \/ (json_object_size(loc) = 1 /\ json_object_get(loc, "rel") # NULL)
       THEN invalidprop(ctx, NULL)
       ELSE linkIds(timeZone(string(string(string(string(ctx,
                "name"), "description"), "rel"), "coordinates")))

\* the value that validate_location returns
validate_location(ctx, loc, links) ==
    /\ ~(json_object_size(loc) = 0
         \/ (json_object_size(loc) = 1 /\ json_object_get(loc, "rel") # NULL))
    /\ Len(validate_location_ctx(ctx, loc, links).invalid) = Len(ctx.invalid)

\* icalvalue_new_from_string(ICAL_TEXT_VALUE, name) of a location without a
\* name is NULL, and the property has no value
location_to_ical(comp, id, loc) ==
    LET str(name) == json_string_value(json_object_get(loc, name))
        rel == IF str("rel") # NULL /\ str("rel").s = "unknown" THEN NULL
               ELSE str("rel")
        new == IF icalcomponent_get_first_property(comp, "LOCATION") = NULL
               THEN icalproperty_new("LOCATION", str("name"))
               ELSE icalproperty_new(JMAPICAL_XPROP_LOCATION, str("name"))
        xparam(prop, val, name) ==
            IF val # NULL THEN set_icalxparam(prop, name, val.s, FALSE)
            ELSE prop
        RECURSIVE linkIds(_, _)
        linkIds(prop, keys) ==
            IF keys = <<>> THEN prop
            ELSE linkIds(set_icalxparam(prop, JMAPICAL_XPARAM_LINKID,
                                        Head(keys), FALSE), Tail(keys))
    IN icalcomponent_add_property(
           comp,
           linkIds(xparam(xparam(xparam(xparam(xjmapid_to_ical(new, id),
                       rel, JMAPICAL_XPARAM_REL),
                       str("description"), JMAPICAL_XPARAM_DESCRIPTION),
                       str("timeZone"), JMAPICAL_XPARAM_TZID),
                       str("coordinates"), JMAPICAL_XPARAM_GEO),
                   json_object_keys(json_object_get(loc, "linkIds"))))

\* one pass of the loop of locations_to_ical
locations_loop_body(w, id, loc, links) ==
    IF ~is_valid_jmapid(id)
    THEN [w EXCEPT !.ctx = endprop(invalidprop(
                                 beginprop_key(@, "locations", id), NULL))]
    \* Ignore end timeZone locations
    ELSE IF location_is_endtimezone(loc) THEN w
    ELSE IF ~validate_location(beginprop_key(w.ctx, "locations", id), loc, links)
    THEN [w EXCEPT !.ctx = endprop(validate_location_ctx(
                                 beginprop_key(@, "locations", id), loc, links))]
    ELSE [w EXCEPT !.comp = location_to_ical(@, id, loc)]

RECURSIVE locations_loop(_, _, _, _)
locations_loop(w, locations, keys, links) ==
    IF keys = <<>> THEN w
    ELSE locations_loop(
             locations_loop_body(w, Head(keys), locations.o[Head(keys)], links),
             locations, Tail(keys), links)

locations_to_ical(w, locations, links) ==
    locations_loop(
        [w EXCEPT !.comp = remove_icalprop(remove_icalprop(remove_icalprop(
                               remove_icalprop(@, "LOCATION"), "GEO"),
                               JMAPICAL_XPROP_LOCATION),
                               "X-APPLE-STRUCTURED-LOCATION")],
        locations, json_object_keys(locations), links)

\* One pass of the loop of virtuallocations_to_ical.  The LABEL is added
\* when the uri is a string: icalparameter_new_label of a name that is no
\* string is NULL, and no parameter is added.
virtuallocations_loop_body(w, id, loc) ==
    LET juri == json_object_get(loc, "uri")
        jname == json_object_get(loc, "name")
        jdescription == json_object_get(loc, "description")
        uri(prop) == IF json_is_string(juri) THEN [prop EXCEPT !.val = juri]
                     ELSE prop
        name(prop) ==
            IF json_is_string(juri) /\ json_string_value(jname) # NULL
            THEN icalproperty_add_parameter(prop, "LABEL", jname.s) ELSE prop
        description(prop) ==
            IF json_is_string(jdescription)
            THEN set_icalxparam(prop, JMAPICAL_XPARAM_DESCRIPTION,
                                jdescription.s, FALSE)
            ELSE prop
        checked(c) ==
            invalidprop_if(~json_is_string(jdescription)
                           /\ JNOTNULL(jdescription),
                           invalidprop_if(~json_is_string(juri), c, "uri"),
                           "description")
    IN IF ~is_valid_jmapid(id)
       THEN [w EXCEPT !.ctx = endprop(invalidprop(
                                 beginprop_key(@, "virtualLocations", id),
                                 NULL))]
       ELSE [w EXCEPT
               !.ctx = endprop(checked(beginprop_key(@, "virtualLocations", id))),
               !.comp = icalcomponent_add_property(
                            @, description(name(uri(xjmapid_to_ical(
                                   icalproperty_new("CONFERENCE", NULL), id)))))]

RECURSIVE virtuallocations_loop(_, _, _)
virtuallocations_loop(w, locations, keys) ==
    IF keys = <<>> THEN w
    ELSE virtuallocations_loop(
             virtuallocations_loop_body(w, Head(keys), locations.o[Head(keys)]),
             locations, Tail(keys))

virtuallocations_to_ical(w, locations) ==
    virtuallocations_loop([w EXCEPT !.comp = remove_icalprop(@, "CONFERENCE")],
                          locations, json_object_keys(locations))

\* the relativeTo values that alerts_to_ical knows, each with the RELATED
\* parameter and the sign of the trigger
AlertRelations ==
    { [relativeTo |-> "before-start", rel |-> "START", is_neg |-> TRUE],
      [relativeTo |-> "after-start", rel |-> "START", is_neg |-> FALSE],
      [relativeTo |-> "before-end", rel |-> "END", is_neg |-> TRUE],
      [relativeTo |-> "after-end", rel |-> "END", is_neg |-> FALSE] }

\* a trigger that is before the start whatever relativeTo says
alert_relation_default(alert) ==
    [relativeTo |-> "", rel |-> "START", is_neg |-> TRUE]

\* rel and trigger.duration.is_neg after the block "relativeTo"
alert_relation(alert) ==
    LET known(e) == IF e = NULL
                    THEN [relativeTo |-> "", rel |-> "START", is_neg |-> TRUE]
                    ELSE e
        of(s) == IF s = NULL THEN known(NULL)
                 ELSE known(TheOne({e \in AlertRelations : e.relativeTo = s.s}))
    IN of(readprop_s(alert, "relativeTo"))

\* trigger.duration after the block "offset"
alert_duration(alert) ==
    LET of(s) == IF s = NULL THEN icaldurationtype_null_duration
                 ELSE icaldurationtype_from_string(s.s)
    IN of(readprop_s(alert, "offset"))

\* the TRIGGER property of the alarm
alert_trigger(alert) ==
    icalproperty_add_parameter(
        icalproperty_new("TRIGGER",
            [time |-> icaltime_null_time,
             duration |-> [secs |-> alert_duration(alert).secs,
                           bad |-> alert_duration(alert).bad,
                           is_neg |-> alert_relation(alert).is_neg]]),
        "RELATED", alert_relation(alert).rel)

\* what utcdate_to_icaltime makes of the string value of name, NULL when
\* there is no string or it is no UTC date-time
alert_utcdate(alert, name) ==
    IF readprop_s(alert, name) = NULL THEN NULL
    ELSE utcdate_to_icaltime(readprop_s(alert, name).s)

\* the action of the alarm
alert_action(alert) ==
    IF readprop_s(alert, "action") = json_string("email") THEN "EMAIL"
    ELSE "DISPLAY"

\* the invalid properties of one alert, under the path of the alert
alert_to_ical_ctx(ctx, alert) ==
    LET offset(c) ==
            readprop_checked(c, alert, "offset", TRUE, "s",
                ~icaldurationtype_is_bad_duration(alert_duration(alert)))
        relativeTo(c) ==
            readprop_checked(c, alert, "relativeTo", FALSE, "s",
                \E e \in AlertRelations :
                    e.relativeTo = readprop_s(alert, "relativeTo").s)
        snoozed(c) ==
            readprop_checked(c, alert, "snoozed", FALSE, "s",
                             alert_utcdate(alert, "snoozed") # NULL)
        acknowledged(c) ==
            readprop_checked(c, alert, "acknowledged", FALSE, "s",
                             alert_utcdate(alert, "acknowledged") # NULL)
        action(c) ==
            readprop_checked(c, alert, "action", FALSE, "s",
                readprop_s(alert, "action").s \in {"email", "display"})
    IN action(acknowledged(snoozed(relativeTo(offset(ctx)))))

\* the snooze VALARM: "Add RELATED-TO" and "Add TRIGGER"
alert_to_ical_snooze(id, alert) ==
    [kind |-> "VALARM", comps |-> <<>>,
     props |-> <<icalproperty_add_parameter(
                     TextProp("RELATED-TO", id), "RELTYPE", "SNOOZE"),
                 icalproperty_new("TRIGGER",
                     [time |-> alert_utcdate(alert, "snoozed"),
                      duration |-> icaldurationtype_null_duration])>>]

\* the VALARM of the alert, with the properties in the order in which they
\* are added; comp is the VEVENT, whose SUMMARY and DESCRIPTION it copies
alert_to_ical_alarm(comp, id, alert) ==
    [kind |-> "VALARM", comps |-> <<>>,
     props |->
        <<TextProp("UID", id), alert_trigger(alert)>>
        \o (IF alert_utcdate(alert, "acknowledged") # NULL
            THEN <<icalproperty_new("ACKNOWLEDGED",
                                    alert_utcdate(alert, "acknowledged"))>>
            ELSE <<>>)
        \o <<TextProp("ACTION", alert_action(alert))>>
        \o (IF alert_action(alert) = "EMAIL"
            THEN <<TextProp("ATTENDEE", "mailto:" \o httpd_userid),
                   icalproperty_new("SUMMARY",
                       OrElse(icalcomponent_get_text(comp, "SUMMARY"),
                              json_string("Your event alert")))>>
            ELSE <<>>)
        \o <<icalproperty_new("DESCRIPTION",
                 OrElse(icalcomponent_get_text(comp, "DESCRIPTION"),
                        json_string("")))>>]

\* the VEVENT with the VALARMs of the alert added: the snooze VALARM, if
\* there is one, before the alarm
alert_to_ical_comp(comp, id, alert) ==
    icalcomponent_add_component(
        IF alert_utcdate(alert, "snoozed") # NULL
        THEN icalcomponent_add_component(comp, alert_to_ical_snooze(id, alert))
        ELSE comp,
        alert_to_ical_alarm(comp, id, alert))

\* the body of the loop over the alerts
alert_to_ical(w, id, alert) ==
    IF ~is_valid_jmapid(id)
    THEN [w EXCEPT !.ctx = endprop(invalidprop(
                               beginprop_key(@, "alerts", id), NULL))]
    ELSE [w EXCEPT !.ctx = endprop(alert_to_ical_ctx(
                               beginprop_key(@, "alerts", id), alert)),
                   !.comp = alert_to_ical_comp(@, id, alert)]

RECURSIVE alerts_loop(_, _, _)
alerts_loop(w, alerts, keys) ==
    IF keys = <<>> THEN w
    ELSE alerts_loop(alert_to_ical(w, Head(keys), alerts.o[Head(keys)]),
                     alerts, Tail(keys))

\* "Purge all VALARMs"
alerts_to_ical_purge(w) ==
    [w EXCEPT !.comp.comps = SelectSeq(@, LAMBDA a : a.kind # "VALARM")]

alerts_to_ical(w, alerts) ==
    IF ~JNOTNULL(alerts) THEN alerts_to_ical_purge(w)
    ELSE alerts_loop(alerts_to_ical_purge(w), alerts, json_object_keys(alerts))

\* icaltime_convert_to_zone to UTC of a time that localdate_to_icaltime made
\* for the zone tz: a date stays as it is, a floating time keeps its fields
icaltime_to_utc(t, tz) ==
    IF t.is_date THEN t
    ELSE LET at(day, sod) ==
                 icaltime(t.year, t.month, day, sod \div 3600,
                          (sod % 3600) \div 60, sod % 60, FALSE, TRUE)
             wrap(secs) == IF secs < 0 THEN at(t.day - 1, secs + 86400)
                           ELSE IF secs >= 86400 THEN at(t.day + 1, secs - 86400)
                           ELSE at(t.day, secs)
         IN wrap(t.hour * 3600 + t.minute * 60 + t.second
                 - (IF tz = NULL THEN 0 ELSE UtcOffset(tz)))

\* The RRULE string that recurrence_to_ical builds in buf is the sequence of
\* its parts [tag, val], in the order in which they are printed: val is the
\* string of the part, or the sequence of the values of a list.  A number is
\* the number that printf("%d") prints and the parser reads back.
rrule_part(tag, val) == [tag |-> tag, val |-> val]

\* the values of the enumerations of libical that the parser knows
Frequencies ==
    {"SECONDLY", "MINUTELY", "HOURLY", "DAILY", "WEEKLY", "MONTHLY", "YEARLY"}

Weekdays == {"SU", "MO", "TU", "WE", "TH", "FR", "SA"}

\* the parts that icalrecurrencetype_from_string knows; BYDATE is none
RRuleTags ==
    {"FREQ", "INTERVAL", "SKIP", "RSCALE", "WKST", "BYDAY", "BYMONTH",
     "BYMONTHDAY", "BYYEARDAY", "BYWEEKNO", "BYHOUR", "BYMINUTE", "BYSECOND",
     "BYSETPOS", "COUNT", "UNTIL"}

ICAL_NO_RECURRENCE == "NO"

\* icalrecurrencetype_from_string: the rule of the parts, with the freq
\* ICAL_NO_RECURRENCE when a part is unknown or there is no known FREQ
icalrecurrencetype_from_string(buf) ==
    LET val(tag, default) ==
            IF \E i \in DOMAIN buf : buf[i].tag = tag
            THEN buf[CHOOSE i \in DOMAIN buf :
                       /\ buf[i].tag = tag
                       /\ \A j \in DOMAIN buf : buf[j].tag = tag => j <= i].val
            ELSE default
    IN [freq |-> IF /\ \A i \in DOMAIN buf : buf[i].tag \in RRuleTags
                    /\ ucase(val("FREQ", "")) \in Frequencies
                 THEN ucase(val("FREQ", "")) ELSE ICAL_NO_RECURRENCE,
        interval |-> val("INTERVAL", 1),
        skip |-> val("SKIP", "OMIT"),
        rscale |-> val("RSCALE", ""),
        week_start |-> val("WKST", "MO"),
        by_day |-> val("BYDAY", <<>>),
        by_month |-> val("BYMONTH", <<>>),
        by_month_day |-> val("BYMONTHDAY", <<>>),
        by_year_day |-> val("BYYEARDAY", <<>>),
        by_week_no |-> val("BYWEEKNO", <<>>),
        by_hour |-> val("BYHOUR", <<>>),
        by_minute |-> val("BYMINUTE", <<>>),
        by_second |-> val("BYSECOND", <<>>),
        by_set_pos |-> val("BYSETPOS", <<>>),
        count |-> val("COUNT", 0),
        until |-> val("UNTIL", icaltime_null_time)]

\* err of recurrence_byX_to_ical for the element e
recurrence_byX_err(e, lower, upper, allowZero) ==
    \/ ~json_is_integer(e)
    \/ ~allowZero /\ e.i = 0
    \/ e.i < lower
    \/ e.i > upper

\* the context after the loop of recurrence_byX_to_ical from the index i on
RECURSIVE recurrence_byX_invalid(_, _, _, _, _, _, _)
recurrence_byX_invalid(ctx, byX, i, lower, upper, allowZero, fieldName) ==
    IF i >= json_array_size(byX) THEN ctx
    ELSE recurrence_byX_invalid(
             IF recurrence_byX_err(byX.a[i + 1], lower, upper, allowZero)
             THEN endprop(invalidprop(beginprop_idx(ctx, fieldName, i), NULL))
             ELSE ctx,
             byX, i + 1, lower, upper, allowZero, fieldName)

\* the values that the loop of recurrence_byX_to_ical prints
recurrence_byX_values(byX, lower, upper, allowZero) ==
    LET values(es) == [k \in DOMAIN es |-> es[k].i]
    IN values(SelectSeq(byX.a,
                        LAMBDA e : ~recurrence_byX_err(e, lower, upper,
                                                        allowZero)))

\* v is [ctx, buf]
recurrence_byX_to_ical(v, byX, tag, lower, upper, allowZero, fieldName) ==
    IF json_array_size(byX) = 0
    THEN [v EXCEPT !.ctx = invalidprop(@, json_string(fieldName))]
    ELSE [ctx |-> recurrence_byX_invalid(v.ctx, byX, 0, lower, upper,
                                         allowZero, fieldName),
          buf |-> Append(v.buf,
                         rrule_part(tag, recurrence_byX_values(
                                             byX, lower, upper, allowZero)))]

\* one of the blocks "pe = readprop(ctx, recur, name, 0, "o", &byX); if
\* (pe > 0) recurrence_byX_to_ical(..., fieldName, ...)"
recurrence_byX(v, recur, name, tag, lower, upper, allowZero, fieldName) ==
    IF readprop_r(recur, name, FALSE, "o") > 0
    THEN recurrence_byX_to_ical(v, json_object_get(recur, name), tag,
                                lower, upper, allowZero, fieldName)
    ELSE v

\* one entry of byDay, under the path byDay/<i>: the context, and the day
\* that is printed unless the context holds an invalid property
recurrence_byDay_ctx(ctx, bd) ==
    readprop_checked(
        readprop_checked(ctx, bd, "day", TRUE, "s",
                         ucase(readprop_s(bd, "day").s) \in Weekdays),
        bd, "nthOfPeriod", FALSE, "i",
        json_object_get(bd, "nthOfPeriod").i # 0)

RECURSIVE recurrence_byDay_loop(_, _, _)
recurrence_byDay_loop(v, byday, i) ==
    IF i >= json_array_size(byday) THEN v
    ELSE recurrence_byDay_loop(
             [ctx |-> endprop(recurrence_byDay_ctx(
                                  beginprop_idx(v.ctx, "byDay", i),
                                  byday.a[i + 1])),
              buf |-> IF have_invalid_props(
                             recurrence_byDay_ctx(
                                 beginprop_idx(v.ctx, "byDay", i),
                                 byday.a[i + 1]))
                      THEN v.buf
                      ELSE [v.buf EXCEPT ![Len(v.buf)].val =
                              Append(@, [day |-> ucase(readprop_s(byday.a[i + 1],
                                                                  "day").s),
                                         pos |-> json_integer_value(
                                                     json_object_get(
                                                         byday.a[i + 1],
                                                         "nthOfPeriod"))])]],
             byday, i + 1)

recurrence_byDay(v, byday) ==
    IF json_array_size(byday) > 0
    THEN recurrence_byDay_loop(
             [v EXCEPT !.buf = Append(@, rrule_part("BYDAY", <<>>))], byday, 0)
    ELSE IF byday # NULL
         THEN [v EXCEPT !.ctx = invalidprop(@, json_string("byDay"))]
         ELSE v

\* what sscanf("%2d%c%c") reads from the byMonth strings of the universe:
\* the number of fields that it matches, val and leap ("" for the NUL)
MonthTable ==
    { [str |-> "1", matched |-> 1, val |-> 1, leap |-> ""],
      [str |-> "12", matched |-> 1, val |-> 12, leap |-> ""],
      [str |-> "5L", matched |-> 2, val |-> 5, leap |-> "L"],
      [str |-> "5X", matched |-> 2, val |-> 5, leap |-> "X"],
      [str |-> "0", matched |-> 1, val |-> 0, leap |-> ""],
      [str |-> "x", matched |-> 0, val |-> 0, leap |-> ""] }

sscanf_month(s) == TheOne({e \in MonthTable : e.str = s})

recurrence_byMonth_err(jval) ==
    \/ json_string_value(jval) = NULL
    \/ sscanf_month(jval.s).matched < 1
    \/ sscanf_month(jval.s).matched > 2
    \/ sscanf_month(jval.s).leap # "" /\ sscanf_month(jval.s).leap # "L"
    \/ sscanf_month(jval.s).val < 1

RECURSIVE recurrence_byMonth_invalid(_, _, _)
recurrence_byMonth_invalid(ctx, bymonth, i) ==
    IF i >= json_array_size(bymonth) THEN ctx
    ELSE recurrence_byMonth_invalid(
             IF recurrence_byMonth_err(bymonth.a[i + 1])
             THEN endprop(invalidprop(beginprop_idx(ctx, "byMonth", i), NULL))
             ELSE ctx,
             bymonth, i + 1)

recurrence_byMonth(v, recur) ==
    IF readprop_r(recur, "byMonth", FALSE, "o") > 0
       /\ json_array_size(json_object_get(recur, "byMonth")) > 0
    THEN LET months(es) ==
                 [k \in DOMAIN es |->
                     [month |-> sscanf_month(es[k].s).val,
                      leap |-> sscanf_month(es[k].s).leap = "L"]]
         IN [ctx |-> recurrence_byMonth_invalid(
                         v.ctx, json_object_get(recur, "byMonth"), 0),
             buf |-> Append(v.buf,
                        rrule_part("BYMONTH",
                            months(SelectSeq(
                                json_object_get(recur, "byMonth").a,
                                LAMBDA e : ~recurrence_byMonth_err(e)))))]
    ELSE v

\* one of the blocks that read a property of the rule and print a part:
\* the property is invalid unless ok, and the part is printed if emit
recurrence_part(v, recur, name, is_mandatory, fmt, ok, emit, part) ==
    [ctx |-> readprop_checked(v.ctx, recur, name, is_mandatory, fmt, ok),
     buf |-> IF readprop_r(recur, name, is_mandatory, fmt) > 0 /\ ok /\ emit
             THEN Append(v.buf, part) ELSE v.buf]

\* the blocks of recurrence_to_ical up to "until"; tzstart and is_allday
\* are those of the context
recurrence_to_ical_parts(v, recur, tzstart, is_allday) ==
    LET str(name) == readprop_s(recur, name).s
        int(name) == json_object_get(recur, name).i
        frequency(x) ==
            recurrence_part(x, recur, "frequency", TRUE, "s", TRUE, TRUE,
                            rrule_part("FREQ", lcase(str("frequency"))))
        interval(x) ==
            recurrence_part(x, recur, "interval", FALSE, "i",
                            int("interval") >= 1, int("interval") > 1,
                            rrule_part("INTERVAL", int("interval")))
        skip(x) ==
            recurrence_part(x, recur, "skip", FALSE, "s", str("skip") # "",
                            TRUE, rrule_part("SKIP", ucase(str("skip"))))
        rscale(x) ==
            recurrence_part(x, recur, "rscale",
                            readprop_r(recur, "skip", FALSE, "s") > 0, "s",
                            str("rscale") # "", TRUE,
                            rrule_part("RSCALE", ucase(str("rscale"))))
        firstDayOfWeek(x) ==
            recurrence_part(x, recur, "firstDayOfWeek", FALSE, "s",
                            ucase(str("firstDayOfWeek")) \in Weekdays, TRUE,
                            rrule_part("WKST", ucase(str("firstDayOfWeek"))))
        byDay(x) == recurrence_byDay(x, json_object_get(recur, "byDay"))
        byDate(x) == recurrence_byX(x, recur, "byDate", "BYDATE",
                                    0 - 31, 31, FALSE, "byDate")
        byMonth(x) == recurrence_byMonth(x, recur)
        byYearDay(x) == recurrence_byX(x, recur, "byYearDay", "BYYEARDAY",
                                       0 - 366, 366, FALSE, "byYearDay")
        byWeekNo(x) == recurrence_byX(x, recur, "byWeekNo", "BYWEEKNO",
                                      0 - 53, 53, FALSE, "byWeekNo")
        byHour(x) == recurrence_byX(x, recur, "byHour", "BYHOUR",
                                    0, 23, TRUE, "byHour")
        byMinute(x) == recurrence_byX(x, recur, "byMinute", "BYMINUTE",
                                      0, 59, TRUE, "byMinute")
        bySecond(x) == recurrence_byX(x, recur, "bySecond", "BYSECOND",
                                      0, 59, TRUE, "bySecond")
        bySetPosition(x) ==
            recurrence_byX(x, recur, "bySetPosition", "BYSETPOS",
                           0, 59, TRUE, "bySetPos")
        both(x) ==
            IF json_object_get(recur, "count") # NULL
               /\ json_object_get(recur, "until") # NULL
            THEN [x EXCEPT !.ctx = invalidprop(
                                       invalidprop(@, json_string("count")),
                                       json_string("until"))]
            ELSE x
        count(x) ==
            recurrence_part(x, recur, "count", FALSE, "i",
                            int("count") > 0
                            /\ json_object_get(recur, "until") = NULL,
                            TRUE, rrule_part("COUNT", int("count")))
        until(x) ==
            recurrence_part(x, recur, "until", FALSE, "s",
                localdate_to_icaltime(str("until"), tzstart, is_allday) # NULL,
                TRUE,
                rrule_part("UNTIL",
                    icaltime_to_utc(
                        localdate_to_icaltime(str("until"), tzstart, is_allday),
                        tzstart)))
        calendar(x) == firstDayOfWeek(rscale(skip(interval(frequency(x)))))
        days(x) == byWeekNo(byYearDay(byMonth(byDate(byDay(x)))))
        times(x) == bySetPosition(bySecond(byMinute(byHour(x))))
        ends(x) == until(count(both(x)))
    IN Then(Then(Then(Then(v, calendar), days), times), ends)

\* "Add RRULE to component", for the context and the parts that the blocks
\* leave.  With a string that libical does not parse the code stores
\* through ctx->err: it is NULL when the caller passed no error struct, and
\* the store then faults, which the field segv of the context records.
recurrence_to_ical_add(w, v) ==
    IF have_invalid_props(v.ctx) THEN [w EXCEPT !.ctx = endprop(v.ctx)]
    ELSE IF icalrecurrencetype_from_string(v.buf).freq # ICAL_NO_RECURRENCE
    THEN [w EXCEPT !.ctx = endprop(v.ctx),
                   !.comp = icalcomponent_add_property(
                                @, icalproperty_new(
                                       "RRULE",
                                       icalrecurrencetype_from_string(v.buf)))]
    ELSE [w EXCEPT
            !.ctx = endprop(invalidprop(
                        IF v.ctx.err = NULL THEN [v.ctx EXCEPT !.segv = TRUE]
                        ELSE [v.ctx EXCEPT !.err.code = JMAPICAL_ERROR_UNKNOWN],
                        NULL))]

recurrence_to_ical_purged(w, recur) ==
    IF ~JNOTNULL(recur) THEN w
    ELSE recurrence_to_ical_add(
             w, recurrence_to_ical_parts(
                    [ctx |-> beginprop(w.ctx, "recurrenceRule"), buf |-> <<>>],
                    recur, w.ctx.tzstart, w.ctx.is_allday))

\* "Purge existing RRULE." comes first
recurrence_to_ical(w, recur) ==
    Then([w EXCEPT !.comp = remove_icalprop(@, "RRULE")],
         LAMBDA x : recurrence_to_ical_purged(x, recur))

description_to_ical(w, desc, content_type) ==
    LET c1 == remove_icalprop(w.comp, "DESCRIPTION")
    IN [w EXCEPT
          !.ctx = IF content_type # NULL /\ lcase(content_type.s) # "text/plain"
                  THEN invalidprop(@, json_string("descriptionContentType"))
                  ELSE @,
          !.comp = icalcomponent_set_value(c1, "DESCRIPTION", desc)]

set_language_icalprop(comp, kind, lang) ==
    LET prop == icalcomponent_get_first_property(comp, kind)
        p1 == [prop EXCEPT !.params = SelectSeq(@, LAMBDA x : x.name # "LANGUAGE")]
    IN IF prop = NULL THEN comp
       ELSE icalcomponent_set_first_property(comp, kind,
                IF lang = NULL THEN p1
                ELSE icalproperty_add_parameter(p1, "LANGUAGE", lang.s))

\* jmap_patchobject_apply(val, patch): a copy of val in which each pointer
\* of the patch has the value that the patch gives it.  The pointers of the
\* input universe name members of val itself.
RECURSIVE patchobject_apply(_, _, _)
patchobject_apply(val, patch, keys) ==
    IF keys = <<>> THEN val
    ELSE patchobject_apply(
             IF json_is_null(patch.o[Head(keys)])
             THEN json_object_del(val, Head(keys))
             ELSE json_object_set(val, Head(keys), patch.o[Head(keys)]),
             patch, Tail(keys))

jmap_patchobject_apply(val, patch) ==
    IF ~json_is_object(val) \/ ~json_is_object(patch) THEN NULL
    ELSE patchobject_apply(val, patch, json_object_keys(patch))

\* the keys that a recurrence override must not have
ForbiddenOverrideKeys ==
    {"uid", "relatedTo", "prodId", "isAllDay", "recurrenceRule",
     "recurrenceOverrides", "replyTo", "participantId"}

\* hash_insert of each sibling VEVENT under its recurrence id
RECURSIVE recurs_insert(_, _)
recurs_insert(recurs, excomps) ==
    IF excomps = <<>> THEN recurs
    ELSE LET t == localdate_from_icaltime_r(
                      icalcomponent_get_recurrenceid(Head(excomps)))
         IN recurs_insert([x \in (DOMAIN recurs) \cup {t} |->
                              IF x = t THEN Head(excomps) ELSE recurs[x]],
                          Tail(excomps))

\* now is what the clock reads during the conversion
RECURSIVE calendarevent_to_ical(_, _, _)

\* The loop over the recurrence overrides works on u, which is [ctx, comp,
\* ical, recurs]: the context, the main VEVENT, its VCALENDAR and the cache
\* of the VEVENTs that were its siblings.

\* "Lookup or create the VEVENT for this override"
override_to_ical_excomp(u, id, start) ==
    dtprop_to_ical(
        OrElse(hash_lookup(id, u.recurs),
               remove_icalprop(remove_icalprop(remove_icalprop(
                   u.comp, "RDATE"), "EXDATE"), "RRULE")),
        start, u.ctx.tzstart, TRUE, "RECURRENCE-ID")

\* "Add the exception": r is what calendarevent_to_ical made of the VEVENT
\* under toctx, and ctx1 the context of the loop
override_to_ical_add(u, ctx1, id, r) ==
    [u EXCEPT
       !.ctx = endprop(IF have_invalid_props(r.ctx)
                       THEN invalidprop_append(ctx1, get_invalid_props(r.ctx))
                       ELSE ctx1),
       !.ical = icalcomponent_add_component(@, r.comp),
       !.recurs = [x \in (DOMAIN @) \ {id} |-> @[x]]]

\* "Create overridden event from patch and master event" and what follows
\* it, where ex is the overridden event
override_to_ical_exception(u, ctx1, id, start, ex, now) ==
    IF ex = NULL THEN [u EXCEPT !.ctx = endprop(invalidprop(ctx1, NULL))]
    ELSE override_to_ical_add(
             u, ctx1, id,
             calendarevent_to_ical(
                 [ctx |-> context_new(NULL, u.ctx.err, mode_or_exc(u.ctx.mode)),
                  comp |-> override_to_ical_excomp(u, id, start),
                  ical |-> NULL],
                 ex, now))

\* the override with the key of the loop as its start, unless it has one
override_with_start(id, override) ==
    IF json_object_get(override, "start") = NULL
    THEN json_object_set(override, "start", json_string(id))
    ELSE override

\* The body of the loop for the override of key id; ctx1 is the context
\* after beginprop_key, and start what localdate_to_icaltime makes of id.
override_to_ical_body(u, ctx1, id, start, override, master, now) ==
    IF start = NULL
    THEN [u EXCEPT !.ctx = endprop(invalidprop(ctx1, NULL))]
    ELSE IF json_object_get(override, "excluded") # NULL
    THEN IF json_object_size(override) = 1
            /\ json_object_get(override, "excluded") = json_true
         THEN [u EXCEPT !.ctx = endprop(ctx1),
                        !.comp = dtprop_to_ical(@, start, u.ctx.tzstart,
                                                FALSE, "EXDATE")]
         ELSE [u EXCEPT !.ctx = endprop(invalidprop(ctx1, json_string(id)))]
    ELSE IF json_object_size(override) = 0
    THEN [u EXCEPT !.ctx = endprop(ctx1),
                   !.comp = dtprop_to_ical(@, start, u.ctx.tzstart,
                                           FALSE, "RDATE")]
    \* the override is left by continue, without endprop
    ELSE IF \E key \in DOMAIN override.o : key \in ForbiddenOverrideKeys
    THEN [u EXCEPT !.ctx = ctx1]
    ELSE override_to_ical_exception(
             u, ctx1, id, start,
             jmap_patchobject_apply(master, override_with_start(id, override)),
             now)

override_to_ical(u, id, override, master, now) ==
    override_to_ical_body(
        u, beginprop_key(u.ctx, "recurrenceOverrides", id), id,
        localdate_to_icaltime(id, u.ctx.tzstart, u.ctx.is_allday),
        override, master, now)

RECURSIVE overrides_loop(_, _, _, _, _)
overrides_loop(u, overrides, keys, master, now) ==
    IF keys = <<>> THEN u
    ELSE overrides_loop(
             override_to_ical(u, Head(keys), overrides.o[Head(keys)],
                              master, now),
             overrides, Tail(keys), master, now)

\* "Purge EXDATE, RDATE" and "Move VEVENT exceptions to a cache".  w.ical
\* holds the components of the VCALENDAR other than w.comp, which is its
\* first component.
overrides_to_ical_cache(w) ==
    [ctx |-> w.ctx,
     comp |-> remove_icalprop(remove_icalprop(w.comp, "RDATE"), "EXDATE"),
     ical |-> [w.ical EXCEPT
                 !.comps = SelectSeq(@, LAMBDA c : c.kind # "VEVENT")],
     recurs |-> recurs_insert(
                    <<>>, SelectSeq(w.ical.comps, LAMBDA c : c.kind = "VEVENT"))]

\* "Convert current master event to JMAP"
overrides_to_ical_master(u) ==
    json_object_del(
        json_object_del(
            calendarevent_from_ical(
                [wantprops |-> NULL, master |-> NULL],
                [u.ical EXCEPT !.comps = <<u.comp>> \o @], 1, "differ"),
            "recurrenceRule"),
        "recurrenceOverrides")

\* the context, the VEVENT and the VCALENDAR of u
overrides_to_ical_done(u) == [ctx |-> u.ctx, comp |-> u.comp, ical |-> u.ical]

overrides_to_ical_cached(u, overrides, now) ==
    IF json_is_null(overrides) THEN overrides_to_ical_done(u)
    ELSE overrides_to_ical_done(
             overrides_loop(u, overrides, json_object_keys(overrides),
                            overrides_to_ical_master(u), now))

\* The event as overrides_to_ical leaves it under the context ctx: the
\* override that becomes an exception is given the start that it lacks.
overrides_to_ical_event(event, ctx) ==
    LET overrides == json_object_get(event, "recurrenceOverrides")
        patched(id, override) ==
            /\ localdate_to_icaltime(id, ctx.tzstart, ctx.is_allday) # NULL
            /\ json_object_get(override, "excluded") = NULL
            /\ json_object_size(override) # 0
            /\ ~\E key \in DOMAIN override.o : key \in ForbiddenOverrideKeys
    IN IF overrides # NULL /\ json_is_object(overrides)
       THEN json_object_set(
                event, "recurrenceOverrides",
                json_object([id \in DOMAIN overrides.o |->
                                IF patched(id, overrides.o[id])
                                THEN override_with_start(id, overrides.o[id])
                                ELSE overrides.o[id]]))
       ELSE event

overrides_to_ical(w, overrides, now) ==
    overrides_to_ical_cached(overrides_to_ical_cache(w), overrides, now)

----------------------------------------------------------------------------
(* JSCalendar to iCalendar: the event                                      *)

\* the version string of the build
CYRUS_VERSION == "3.1"

\* icalenum_string_to_method, on the methods of the input universe
icalenum_string_to_method(method) ==
    IF ucase(method) \in {"PUBLISH", "REQUEST", "REPLY", "CANCEL"}
    THEN ucase(method) ELSE "NONE"

\* one of the blocks "pe = readprop(..., "o", &x); if (pe > 0) { if
\* (json_is_null(x) || json_object_size(x)) convert; else invalidprop }":
\* whether the value is to be converted
convertible(jval) == json_is_null(jval) \/ json_object_size(jval) > 0

\* The blocks of calendarevent_to_ical, each a step from w to w; the
\* conversion applies them in the order of the source, excluded first.
calendarevent_to_ical(w, event, now) ==
    LET is_exc == mode_is_exc(w.ctx.mode)
        get(name) == json_object_get(event, name)
        pe(name, is_mandatory, fmt) ==
            readprop_r(event, name, is_mandatory, fmt)
        rp(v, name, is_mandatory, fmt) ==
            [v EXCEPT !.ctx = readprop(@, event, name, is_mandatory, fmt)]
        inv(v, name) == [v EXCEPT !.ctx = invalidprop(@, json_string(name))]
        set(v, name, val) ==
            [v EXCEPT !.comp = icalcomponent_set_value(@, name, val)]
        add(v, name, val) ==
            [v EXCEPT !.comp = icalcomponent_add_property(
                                   @, icalproperty_new(name, val))]
        excluded(v) ==
            IF get("excluded") # NULL /\ get("excluded") # json_false
            THEN inv(v, "excluded") ELSE v
        uid(v) == IF v.ctx.uid = NULL THEN v ELSE set(v, "UID", v.ctx.uid)
        type(v) ==
            IF JNOTNULL(get("@type"))
               /\ (~json_is_string(get("@type")) \/ get("@type").s # "jsevent")
            THEN inv(v, "@type") ELSE v
        isAllDay(v) ==
            [rp(v, "isAllDay", TRUE, "b") EXCEPT
               !.ctx.is_allday = IF pe("isAllDay", TRUE, "b") > 0
                                 THEN get("isAllDay").b ELSE @]
        startend(v) == startend_to_ical(v, event)
        relatedTo(v) ==
            IF pe("relatedTo", FALSE, "o") > 0
            THEN IF convertible(get("relatedTo"))
                 THEN relatedto_to_ical(v, get("relatedTo"))
                 ELSE inv(v, "relatedTo")
            ELSE v
        prodid ==
            IF pe("prodId", FALSE, "s") > 0 THEN get("prodId")
            ELSE json_string("-//CyrusJMAP.org/Cyrus " \o CYRUS_VERSION
                             \o "//EN")
        prodId(v) ==
            IF ~is_exc /\ ~json_is_null(get("prodId"))
            THEN [rp(v, "prodId", FALSE, "s") EXCEPT
                    !.ical = icalcomponent_add_property(
                                 remove_icalprop(@, "PRODID"),
                                 icalproperty_new("PRODID", prodid))]
            ELSE v
        \* created, updated and sequence
        created(v) ==
            [v EXCEPT !.comp = icalcomponent_set_value(
                 dtprop_to_ical(
                     dtprop_to_ical(@, now, icaltimezone_get_utc_timezone,
                                    TRUE, "CREATED"),
                     now, icaltimezone_get_utc_timezone, TRUE, "DTSTAMP"),
                 "SEQUENCE", json_integer(0))]
        jprio == json_integer_value(get("priority"))
        priority(v) ==
            IF jprio >= 0 \/ jprio <= 9
            THEN add(v, "PRIORITY", json_integer(jprio))
            ELSE IF JNOTNULL(get("priority")) THEN inv(v, "priority")
            ELSE v
        title(v) ==
            IF pe("title", TRUE, "s") > 0
            THEN set(v, "SUMMARY", get("title"))
            ELSE rp(v, "title", TRUE, "s")
        \* description and descriptionContentType
        read_description(v) ==
            rp(rp(v, "descriptionContentType", FALSE, "s"),
               "description", FALSE, "s")
        description(v) ==
            IF pe("description", FALSE, "s") > 0 /\ get("description").s # ""
            THEN description_to_ical(
                     v, get("description"),
                     IF pe("descriptionContentType", FALSE, "s") > 0
                     THEN get("descriptionContentType") ELSE NULL)
            ELSE v
        method(v) ==
            IF pe("method", FALSE, "s") > 0
            THEN IF icalenum_string_to_method(get("method").s) # "NONE"
                 THEN [v EXCEPT !.ical = icalcomponent_set_value(
                           @, "METHOD",
                           json_string(icalenum_string_to_method(
                                           get("method").s)))]
                 ELSE inv(v, "method")
            ELSE rp(v, "method", FALSE, "s")
        color(v) ==
            IF pe("color", FALSE, "s") > 0 /\ get("color").s # ""
            THEN add(v, "COLOR", get("color"))
            ELSE rp(v, "color", FALSE, "s")
        keywords(v) ==
            IF pe("keywords", FALSE, "o") > 0
            THEN IF json_is_null(get("keywords"))
                    \/ json_is_object(get("keywords"))
                 THEN keywords_to_ical(v, get("keywords"))
                 ELSE inv(v, "keywords")
            ELSE v
        links(v) ==
            IF pe("links", FALSE, "o") > 0
            THEN IF convertible(get("links"))
                 THEN links_to_ical(v, get("links"))
                 ELSE inv(v, "links")
            ELSE v
        nolang(comp) ==
            set_language_icalprop(set_language_icalprop(comp, "SUMMARY", NULL),
                                  "DESCRIPTION", NULL)
        locale(v) ==
            IF json_is_null(get("locale")) THEN [v EXCEPT !.comp = nolang(@)]
            ELSE IF pe("locale", FALSE, "s") > 0
                 THEN [v EXCEPT !.comp =
                         IF get("locale").s # ""
                         THEN set_language_icalprop(nolang(@), "SUMMARY",
                                                    get("locale"))
                         ELSE nolang(@)]
                 ELSE rp(v, "locale", FALSE, "s")
        locations(v) ==
            IF pe("locations", FALSE, "o") > 0
            THEN IF convertible(get("locations"))
                 THEN locations_to_ical(v, get("locations"), get("links"))
                 ELSE inv(v, "locations")
            ELSE v
        virtualLocations(v) ==
            IF pe("virtualLocations", FALSE, "o") > 0
            THEN IF convertible(get("virtualLocations"))
                 THEN virtuallocations_to_ical(v, get("virtualLocations"))
                 ELSE inv(v, "virtualLocations")
            ELSE v
        recurrenceRule(v) ==
            IF pe("recurrenceRule", FALSE, "o") > 0 /\ ~is_exc
            THEN recurrence_to_ical(v, get("recurrenceRule"))
            ELSE v
        icalstatus ==
            IF pe("status", FALSE, "s") > 0
            THEN CASE get("status").s = "confirmed" -> "CONFIRMED"
                   [] get("status").s = "cancelled" -> "CANCELLED"
                   [] get("status").s = "tentative" -> "TENTATIVE"
                   [] OTHER -> "NONE"
            ELSE IF pe("status", FALSE, "s") = 0 THEN "CONFIRMED"
            ELSE "NONE"
        status(v) ==
            IF icalstatus # "NONE"
            THEN [v EXCEPT !.comp = icalcomponent_set_value(
                      remove_icalprop(@, "STATUS"), "STATUS",
                      json_string(icalstatus))]
            ELSE IF pe("status", FALSE, "s") > 0 THEN inv(v, "status")
            ELSE rp(v, "status", FALSE, "s")
        transp ==
            CASE get("freeBusyStatus").s = "free" -> "TRANSPARENT"
              [] get("freeBusyStatus").s = "busy" -> "OPAQUE"
              [] OTHER -> "NONE"
        freeBusyStatus(v) ==
            IF pe("freeBusyStatus", FALSE, "s") > 0
            THEN IF transp = "NONE" THEN inv(v, "freeBusyStatus")
                 ELSE set(v, "TRANSP", json_string(transp))
            ELSE rp(v, "freeBusyStatus", FALSE, "s")
        class ==
            CASE get("privacy").s = "public" -> "PUBLIC"
              [] get("privacy").s = "private" -> "PRIVATE"
              [] get("privacy").s = "secret" -> "CONFIDENTIAL"
              [] OTHER -> "NONE"
        privacy(v) ==
            IF pe("privacy", FALSE, "s") > 0
            THEN IF class = "NONE" THEN inv(v, "privacy")
                 ELSE set(v, "CLASS", json_string(class))
            ELSE rp(v, "privacy", FALSE, "s")
        participants(v) == participants_to_ical(v, event)
        useDefaultAlerts(v) ==
            IF pe("useDefaultAlerts", FALSE, "b") > 0
            THEN [v EXCEPT !.comp =
                    IF get("useDefaultAlerts").b
                    THEN icalcomponent_add_property(
                             remove_icalprop(@, "X-JMAP-USEDEFAULTALERTS"),
                             icalproperty_new("X-JMAP-USEDEFAULTALERTS",
                                              json_string("TRUE")))
                    ELSE remove_icalprop(@, "X-JMAP-USEDEFAULTALERTS")]
            ELSE rp(v, "useDefaultAlerts", FALSE, "b")
        alerts(v) ==
            IF pe("alerts", FALSE, "o") > 0
            THEN IF convertible(get("alerts"))
                 THEN alerts_to_ical(v, get("alerts"))
                 ELSE inv(v, "alerts")
            ELSE v
        recurrenceOverrides(v) ==
            IF pe("recurrenceOverrides", FALSE, "o") > 0 /\ ~is_exc
            THEN overrides_to_ical(v, get("recurrenceOverrides"), now)
            ELSE v
        \* either both the organizer and the attendees are there, or neither
        sanity(v) ==
            IF have_invalid_props(v.ctx) THEN v
            ELSE IF (icalcomponent_get_first_property(v.comp, "ORGANIZER")
                       = NULL)
                    # (icalcomponent_get_first_property(v.comp, "ATTENDEE")
                         = NULL)
                 THEN inv(inv(v, "replyTo"), "participants")
                 ELSE v
        times(v) == relatedTo(startend(isAllDay(type(uid(excluded(v))))))
        texts(v) ==
            description(read_description(title(priority(created(prodId(v))))))
        tags(v) == locale(links(keywords(color(method(v)))))
        places(v) == recurrenceRule(virtualLocations(locations(v)))
        people(v) == participants(privacy(freeBusyStatus(status(v))))
        rest(v) == sanity(recurrenceOverrides(alerts(useDefaultAlerts(v))))
    IN Then(Then(Then(Then(Then(Then(w, times), texts), tags), places),
                 people), rest)

----------------------------------------------------------------------------
(* JSCalendar to iCalendar: the entry point                                *)

\* the TZID parameters of the properties of a component and of the
\* components below it
RECURSIVE tzids_of(_)
tzids_of(comp) ==
    UNION { { comp.props[i].params[j].value :
                j \in { k \in DOMAIN comp.props[i].params :
                          comp.props[i].params[k].name = "TZID" } } :
              i \in DOMAIN comp.props }
    \cup UNION { tzids_of(comp.comps[i]) : i \in DOMAIN comp.comps }

\* icalcomponent_add_required_timezones: a VTIMEZONE for each time zone that
\* a TZID parameter names
icalcomponent_add_required_timezones(ical) ==
    LET tzids == SetToSeq(tzids_of(ical))
    IN [ical EXCEPT !.comps =
           @ \o [i \in DOMAIN tzids |->
                   [kind |-> "VTIMEZONE", comps |-> <<>>,
                    props |-> <<TextProp("TZID", tzids[i])>>]]]

\* "Bubble up any property errors": the caller's error struct
jmapical_toical_err(err, ctx) ==
    IF have_invalid_props(ctx) /\ err # NULL
    THEN [err EXCEPT !.code = JMAPICAL_ERROR_PROPS,
                     !.props = get_invalid_props(ctx)]
    ELSE err

\* a conversion that hands back the tree whatever the error struct says
jmapical_toical_ical_kept(err, err1, w) ==
    icalcomponent_add_required_timezones(
        [w.ical EXCEPT !.comps = <<w.comp>> \o @])

\* The tree that is returned, NULL where it is freed; err1 is the error
\* struct after the property errors bubbled up, which ctx->err points to.
jmapical_toical_ical(err, err1, w) ==
    IF have_invalid_props(w.ctx) /\ err # NULL THEN NULL
    \* free erroneous ical data
    ELSE IF err1 # NULL /\ err1.code # JMAPICAL_ERROR_NONE THEN NULL
    ELSE icalcomponent_add_required_timezones(
             [w.ical EXCEPT !.comps = <<w.comp>> \o @])

\* a uid read that takes the text of any JSON value for the uid
jmapical_toical_uid_any(jobj) ==
    IF json_string_value(json_object_get(jobj, "uid")) = NULL
    THEN json_string("5")
    ELSE json_string_value(json_object_get(jobj, "uid"))

\* ctx->uid: the uid of the event, NULL unless it is a JSON string
jmapical_toical_uid(jobj) == json_string_value(json_object_get(jobj, "uid"))

\* What jmapical_toical leaves: ical the tree that it returns, err the
\* caller's error struct, and ctx the context as it is when it is freed.
jmapical_toical(jobj, err, now) ==
    LET ical == [kind |-> "VCALENDAR", comps |-> <<>>,
                 props |-> <<TextProp("VERSION", "2.0"),
                             TextProp("CALSCALE", "GREGORIAN")>>]
        comp == [kind |-> "VEVENT", comps |-> <<>>,
                 props |-> <<icalproperty_new("SEQUENCE", json_integer(0)),
                             icalproperty_new("DTSTAMP", now),
                             icalproperty_new("CREATED", now)>>]
        ctx == [context_new(NULL, err, JMAPICAL_WRITE_MODE) EXCEPT
                  !.uid = jmapical_toical_uid(jobj)]
        done(w) ==
            [ical |-> jmapical_toical_ical(
                          err, jmapical_toical_err(err, w.ctx), w),
             err |-> jmapical_toical_err(err, w.ctx),
             ctx |-> w.ctx]
    IN IF ctx.uid = NULL
       THEN [ical |-> NULL,
             err |-> IF err # NULL
                     THEN [err EXCEPT !.code = JMAPICAL_ERROR_UID] ELSE err,
             ctx |-> ctx]
       ELSE done(calendarevent_to_ical(
                     [ctx |-> ctx, comp |-> comp, ical |-> ical], jobj, now))

\* The tree of obj when jmapical_toical returns with the context ctx:
\* calendarevent_to_ical converts the participants and then the overrides,
\* whatever the properties before them were.
jmapical_toical_obj(jobj, ctx) ==
    IF json_string_value(json_object_get(jobj, "uid")) = NULL THEN jobj
    ELSE overrides_to_ical_event(participants_to_ical_event(jobj), ctx)

----------------------------------------------------------------------------
(* The input universe of to_ical                                           *)

\* the most fields in which an event differs from one of the base events
MaxDeviations == 2

\* the most entries of recurrenceOverrides
MaxOverrides == 2

\* ABSENT as the value of a field leaves the field out of the event
ABSENT == [absent |-> TRUE]

\* the fields of an event of the universe, each with the values that it
\* takes
EventFields ==
    <<[name |-> "@type", vals |-> {json_string("jsevent"),
                                   json_string("jstask"), ABSENT}],
      [name |-> "uid", vals |-> {json_string("u1"), json_integer(5), ABSENT}],
      [name |-> "isAllDay", vals |-> {json_false, json_true, ABSENT}],
      [name |-> "start", vals |-> {json_string("2020-01-01T09:00:00"),
                                   json_string("2020-1-1T9:00:00"),
                                   json_string("2020-01-01T00:00:00"),
                                   json_string("yesterday"), ABSENT}],
      [name |-> "timeZone", vals |-> {json_string("Europe/Vienna"),
                                      json_string("UTC"),
                                      json_string("Mars/Phobos"),
                                      json_null, ABSENT}],
      [name |-> "duration", vals |-> {json_string("PT1H"), json_string("PT60M"),
                                      json_string("P1D"), json_string("1h"),
                                      ABSENT}],
      [name |-> "title", vals |-> {json_string("Weekly sync"), json_string(""),
                                   ABSENT}],
      [name |-> "priority", vals |-> {ABSENT, json_integer(5),
                                      json_string("high")}],
      [name |-> "sequence", vals |-> {ABSENT, json_integer(3)}],
      [name |-> "status", vals |-> {ABSENT, json_string("cancelled"),
                                    json_string("postponed")}],
      [name |-> "freeBusyStatus", vals |-> {ABSENT, json_string("free"),
                                            json_string("away")}],
      [name |-> "privacy", vals |-> {ABSENT, json_string("secret"),
                                     json_string("hidden")}],
      [name |-> "created", vals |-> {ABSENT,
                                     json_string("2020-01-08T09:00:00Z")}],
      [name |-> "updated", vals |-> {ABSENT,
                                     json_string("2020-01-08T10:30:00Z")}],
      [name |-> "excluded", vals |-> {ABSENT, json_true}]>>

\* the event that gives each field of fs its value in vs
EventOf(fs, vs) ==
    json_object([k \in {EventFields[i].name : i \in {j \in fs : vs[j] # ABSENT}}
                   |-> vs[CHOOSE i \in fs : EventFields[i].name = k]])

\* a timed event and an all-day event that to_ical accepts
TimedEvent ==
    [i \in DOMAIN EventFields |->
        CASE EventFields[i].name = "@type" -> json_string("jsevent")
          [] EventFields[i].name = "uid" -> json_string("u1")
          [] EventFields[i].name = "isAllDay" -> json_false
          [] EventFields[i].name = "start" -> json_string("2020-01-01T09:00:00")
          [] EventFields[i].name = "timeZone" -> json_string("Europe/Vienna")
          [] EventFields[i].name = "duration" -> json_string("PT1H")
          [] EventFields[i].name = "title" -> json_string("Weekly sync")
          [] OTHER -> ABSENT]

AllDayEvent ==
    [i \in DOMAIN EventFields |->
        CASE EventFields[i].name = "isAllDay" -> json_true
          [] EventFields[i].name = "start" -> json_string("2020-01-01T00:00:00")
          [] EventFields[i].name = "timeZone" -> json_null
          [] EventFields[i].name = "duration" -> json_string("P1D")
          [] OTHER -> TimedEvent[i]]

\* the events that differ from a base event in the fields of D
Deviations(base, D) ==
    { EventOf(DOMAIN EventFields,
              [i \in DOMAIN EventFields |-> IF i \in D THEN f[i] ELSE base[i]]) :
        f \in { g \in [D -> UNION {EventFields[i].vals : i \in D}] :
                  \A i \in D : g[i] \in EventFields[i].vals /\ g[i] # base[i] } }

ScalarEvents ==
    UNION { Deviations(base, D) :
              base \in {TimedEvent, AllDayEvent},
              D \in { X \in SUBSET DOMAIN EventFields :
                        Cardinality(X) <= MaxDeviations } }

\* the keys and the values of the recurrence overrides of the universe
OverrideKeys == {"2020-01-08T09:00:00", "2020-01-08T10:30:00", "not-a-date"}

OverridePatches ==
    { json_object([excluded |-> json_true]),
      json_object(<<>>),
      json_object([title |-> json_string("Weekly sync - cancelled")]),
      json_object([title |-> json_string("Weekly sync - cancelled"),
                   uid |-> json_string("u2")]),
      json_object([excluded |-> json_true,
                   title |-> json_string("Weekly sync - cancelled")]),
      json_object([status |-> json_string("postponed")]) }

RecurringEvents ==
    { json_object_set(EventOf(DOMAIN EventFields, TimedEvent),
                      "recurrenceOverrides", overrides) :
        overrides \in {json_null} \cup
            { json_object(f) :
                f \in UNION { [K -> OverridePatches] :
                                K \in { X \in SUBSET OverrideKeys :
                                          Cardinality(X) \in 1..MaxOverrides } } } }

\* The participants of the universe.  Owner(fields) is the participant of
\* the organizer's address with roles {owner: true} and the given fields on
\* top; Guest is another participant.
OrganizerUri == "mailto:o@example.com"

Owner(fields) ==
    json_object_update(
        json_object([sendTo |-> json_object([imip |-> json_string(OrganizerUri)]),
                     roles |-> json_object([owner |-> json_true])]),
        json_object(fields))

OwnerParticipants ==
    { Owner([email |-> json_string("o@example.com")]),
      Owner([email |-> json_string("o@example.com"), name |-> json_string(""),
             participationStatus |-> json_string("needs-action"),
             attendance |-> json_string("required"),
             expectReply |-> json_false,
             scheduleSequence |-> json_integer(0)]),
      Owner([email |-> json_string("o@example.com"),
             name |-> json_string("Olivia")]),
      Owner([email |-> json_string("o@example.com"),
             participationStatus |-> json_string("accepted")]),
      Owner(<<>>) }

Guest ==
    json_object([sendTo |-> json_object([imip |-> json_string(AttendeeUri(1))]),
                 email |-> json_string(AttendeeAddr(1)),
                 roles |-> json_object([attendee |-> json_true]),
                 participationStatus |-> json_string("accepted")])

\* the organizer as a participant that is addressed by its email only
OwnerByEmail ==
    json_object([email |-> json_string("o@example.com"),
                 roles |-> json_object([owner |-> json_true])])

ParticipantEvents ==
    LET base == EventOf(DOMAIN EventFields, TimedEvent)
        replyTo == json_object([imip |-> json_string(OrganizerUri)])
        with(ps) == json_object_set(json_object_set(base, "replyTo", replyTo),
                                    "participants", json_object(ps))
    IN { with([o1 |-> p]) : p \in OwnerParticipants }
       \cup { with([o1 |-> p, p1 |-> Guest]) : p \in OwnerParticipants }
       \cup { with([p1 |-> Guest]),
              with([o1 |-> OwnerByEmail]),
              with([o1 |-> OwnerByEmail, p1 |-> Guest]),
              json_object_set(base, "replyTo", replyTo),
              json_object_set(base, "participants", json_object([p1 |-> Guest])) }

EventInputs == ScalarEvents \cup RecurringEvents \cup ParticipantEvents

\* what the clock can read during a conversion
Clock == {Stamp1, icaltime(2020, 1, 8, 10, 30, 0, FALSE, TRUE)}

----------------------------------------------------------------------------
(* The caller of to_ical, who converts the tree that it gets back          *)

Init ==
    /\ pc = "start"
    /\ obj \in EventInputs
    /\ vcalendar = NULL
    /\ jsevent = NULL
    /\ jsevents = NULL
    /\ jerr \in {NULL, NoError}
    /\ context = NULL
    /\ jprops = NULL
    /\ obj_out = obj
    /\ loop = NULL

\* What an access through a NULL pointer (the store through ctx->err, the
\* strcmp on orga_method) and an assertion that fails can do: end the
\* process, or nothing where the build drops it.
StoreOutcomes == {"crash", "dropped"}

Call_jmapical_toical ==
    /\ pc = "start"
    /\ obj # NULL
    /\ \E now \in Clock :
         LET return(r) ==
                 \E ub \in IF r.ctx.segv \/ r.ctx.aborted THEN StoreOutcomes
                            ELSE {"dropped"} :
                    IF ub = "crash"
                    THEN /\ pc' = "crashed"
                         /\ UNCHANGED <<vcalendar, jerr, context, obj_out>>
                    ELSE /\ pc' = "toical"
                         /\ vcalendar' = r.ical
                         /\ jerr' = r.err
                         /\ context' = r.ctx
                         /\ obj_out' = jmapical_toical_obj(obj, r.ctx)
         IN return(jmapical_toical(obj, jerr, now))
    /\ UNCHANGED <<obj, jsevent, jsevents, jprops, loop>>

Next == Call_jmapical_toical \/ Call_jmapical_tojmap

Spec == Init /\ [][Next]_vars

----------------------------------------------------------------------------
(* Events with alerts                                                      *)

\* the most alerts of an event
MaxAlerts == 2

AlertIds == {"a1", "a2", "a/b"}

\* the fields of an alert of the universe, each with the values that it
\* takes
AlertFields ==
    [offset |-> {json_string("PT15M"), json_string("15m"), ABSENT},
     relativeTo |-> {json_string("before-start"), json_string("after-start"),
                     json_string("before-end"), json_string("after-end"),
                     json_string("sometime"), ABSENT},
     snoozed |-> {json_string("2020-01-08T09:00:00Z"), json_string("tomorrow"),
                  json_true, ABSENT},
     acknowledged |-> {json_string("2020-01-08T10:30:00Z"), ABSENT},
     action |-> {json_string("display"), json_string("email"),
                 json_string("ring"), ABSENT}]

Alerts ==
    { json_object([k \in {x \in DOMAIN f : f[x] # ABSENT} |-> f[k]]) :
        f \in { g \in [DOMAIN AlertFields ->
                         UNION {AlertFields[k] : k \in DOMAIN AlertFields}] :
                  \A k \in DOMAIN AlertFields : g[k] \in AlertFields[k] } }

\* the alerts that an event has beside another one
OtherAlerts ==
    { json_object([offset |-> json_string("PT15M")]),
      json_object([offset |-> json_string("PT1H"),
                   relativeTo |-> json_string("after-end"),
                   snoozed |-> json_string("2020-01-08T09:00:00Z")]) }

AlertEvents ==
    { json_object_set(EventOf(DOMAIN EventFields, TimedEvent), "alerts", alerts) :
        alerts \in
            { json_object([id \in {i} |-> a]) : i \in AlertIds, a \in Alerts }
            \cup { json_object(f) :
                     f \in UNION { [K -> OtherAlerts] :
                                     K \in { X \in SUBSET AlertIds :
                                               Cardinality(X) \in 2..MaxAlerts } } } }

Init_alerts ==
    /\ pc = "start"
    /\ obj \in AlertEvents
    /\ vcalendar = NULL
    /\ jsevent = NULL
    /\ jsevents = NULL
    /\ jerr \in {NULL, NoError}
    /\ context = NULL
    /\ jprops = NULL
    /\ obj_out = obj
    /\ loop = NULL

Spec_alerts == Init_alerts /\ [][Next]_vars

----------------------------------------------------------------------------
(* Events with links, locations and virtual locations                      *)

\* the most entries of links, of locations and of virtualLocations
MaxEntries == 2

LinkIds == {"l1", "l2", "a/b"}

Links ==
    { json_object([href |-> json_string("https://example.com/a")]),
      json_object([href |-> json_string("https://example.com/a"),
                   rel |-> json_string("describedby")]),
      json_object([href |-> json_string("https://example.com/a"),
                   rel |-> json_string("enclosure"),
                   type |-> json_string("text/plain"),
                   title |-> json_string("Agenda"),
                   cid |-> json_string("c1"),
                   display |-> json_string("badge"),
                   size |-> json_integer(5)]),
      json_object([href |-> json_string("")]),
      json_object([title |-> json_string("Agenda")]),
      json_object([href |-> json_string("https://example.com/a"),
                   rel |-> json_string("Bad Rel")]),
      json_object([href |-> json_string("https://example.com/a"),
                   size |-> json_integer(0 - 1)]),
      json_object([href |-> json_string("https://example.com/a"),
                   type |-> json_integer(5)]) }

\* the links that an event has beside another one
OtherLinks ==
    { json_object([href |-> json_string("https://example.com/a")]),
      json_object([href |-> json_string("https://example.com/b"),
                   rel |-> json_string("describedby")]) }

LocationIds == {"loc1", "loc2", "end1", "a/b"}

Locations ==
    { json_object([name |-> json_string("Room 1")]),
      json_object([name |-> json_string("Room 1"),
                   rel |-> json_string("start"),
                   description |-> json_string("first floor"),
                   timeZone |-> json_string("Europe/Vienna"),
                   coordinates |-> json_string("geo:48.2,16.3")]),
      json_object([name |-> json_string("Room 1"),
                   rel |-> json_string("unknown")]),
      json_object([description |-> json_string("first floor")]),
      json_object([rel |-> json_string("end"),
                   timeZone |-> json_string("America/New_York")]),
      json_object([rel |-> json_string("end"),
                   timeZone |-> json_string("Europe/Vienna")]),
      json_object([rel |-> json_string("end"),
                   timeZone |-> json_string("Mars/Phobos")]),
      json_object([rel |-> json_string("start")]),
      json_object(<<>>),
      json_object([name |-> json_string("Room 1"),
                   timeZone |-> json_string("Mars/Phobos")]),
      json_object([name |-> json_integer(5)]),
      json_object([name |-> json_string("Room 1"),
                   linkIds |-> json_object([l1 |-> json_true])]),
      json_object([name |-> json_string("Room 1"),
                   linkIds |-> json_true]) }

\* the locations that an event has beside another one
OtherLocations ==
    { json_object([name |-> json_string("Room 1")]),
      json_object([name |-> json_string("Room 2"),
                   rel |-> json_string("end")]),
      json_object([rel |-> json_string("end"),
                   timeZone |-> json_string("America/New_York")]) }

VirtualLocationIds == {"v1", "v2", "a/b"}

VirtualLocations ==
    { json_object([uri |-> json_string("https://meet.example.com/1")]),
      json_object([uri |-> json_string("https://meet.example.com/1"),
                   name |-> json_string("Call"),
                   description |-> json_string("dial in")]),
      json_object([name |-> json_string("Call")]),
      json_object([uri |-> json_integer(5)]),
      json_object([uri |-> json_string("https://meet.example.com/1"),
                   name |-> json_string("Call"),
                   description |-> json_integer(5)]) }

OtherVirtualLocations ==
    { json_object([uri |-> json_string("https://meet.example.com/1"),
                   name |-> json_string("Call")]),
      json_object([uri |-> json_string("https://meet.example.com/2"),
                   name |-> json_string("Chat")]) }

\* the collections of one entry out of vals, and of more out of others
Collections(ids, vals, others) ==
    { json_object([id \in {i} |-> v]) : i \in ids, v \in vals }
    \cup { json_object(f) :
             f \in UNION { [K -> others] :
                             K \in { X \in SUBSET ids :
                                       Cardinality(X) \in 2..MaxEntries } } }

\* an event with links and locations, virtual locations, participants and
\* alerts, each under ids of its own
FullEvents ==
    LET base == EventOf(DOMAIN EventFields, TimedEvent)
        replyTo == json_object([imip |-> json_string(OrganizerUri)])
        sets(locations, alerts) ==
            << Prop(TRUE, "links",
                    json_object([l1 |-> json_object(
                        [href |-> json_string("https://example.com/a")])])),
               Prop(TRUE, "locations", locations),
               Prop(TRUE, "virtualLocations",
                    json_object([v1 |-> json_object(
                        [uri |-> json_string("https://meet.example.com/1"),
                         name |-> json_string("Call")])])),
               Prop(TRUE, "replyTo", replyTo),
               Prop(TRUE, "participants",
                    json_object([o1 |-> Owner([email |->
                                                 json_string("o@example.com")]),
                                 p1 |-> Guest])),
               Prop(TRUE, "alerts", alerts) >>
    IN { json_object_set_all(base, sets(locations, alerts)) :
           locations \in
               { json_object([loc1 |-> json_object(
                                 [name |-> json_string("Room 1"),
                                  linkIds |-> json_object([l1 |-> json_true])])]),
                 json_object([loc1 |-> json_object(
                                 [name |-> json_string("Room 1")]),
                              end1 |-> json_object(
                                 [rel |-> json_string("end"),
                                  timeZone |-> json_string("America/New_York")])]),
                 json_object([end1 |-> json_object(
                                 [rel |-> json_string("end"),
                                  timeZone |-> json_string("Europe/Vienna")])]) },
           alerts \in
               { json_object([a1 |-> json_object(
                                 [offset |-> json_string("PT15M")])]),
                 json_null } }

\* the all-day events that differ from AllDayEvent in their start, their
\* time zone or their duration
AllDayDeviations ==
    UNION { Deviations(AllDayEvent, {i}) :
              i \in { j \in DOMAIN EventFields :
                        EventFields[j].name \in {"start", "timeZone",
                                                 "duration"} } }

IdEvents ==
    LET timed == EventOf(DOMAIN EventFields, TimedEvent)
        allday == EventOf(DOMAIN EventFields, AllDayEvent)
    IN AllDayDeviations \cup
       { json_object_set(timed, "links", links) :
           links \in Collections(LinkIds, Links, OtherLinks) }
       \cup { json_object_set(base, "locations", locations) :
                base \in {timed, allday},
                locations \in Collections(LocationIds, Locations,
                                          OtherLocations) }
       \cup { json_object_set(timed, "virtualLocations", locations) :
                locations \in Collections(VirtualLocationIds, VirtualLocations,
                                          OtherVirtualLocations) }
       \cup FullEvents

Init_ids ==
    /\ pc = "start"
    /\ obj \in IdEvents
    /\ vcalendar = NULL
    /\ jsevent = NULL
    /\ jsevents = NULL
    /\ jerr \in {NULL, NoError}
    /\ context = NULL
    /\ jprops = NULL
    /\ obj_out = obj
    /\ loop = NULL

Spec_ids == Init_ids /\ [][Next]_vars

----------------------------------------------------------------------------
(* Events whose entries have ids of every length and make-up              *)

\* the longest id of the universe
MaxIdLen == 257

\* the string of n times the character c
RECURSIVE Rep(_, _)
Rep(c, n) ==
    IF n = 0 THEN ""
    ELSE IF n % 2 = 0 THEN Rep(c, n \div 2) \o Rep(c, n \div 2)
         ELSE c \o Rep(c, n - 1)

IdLengths == 0..2 \cup 255..MaxIdLen

\* characters of each class that an id is made of, and characters that
\* no id has, characters next to the digits and the letters among them
GoodChars == {"a", "z", "A", "Z", "0", "9", "-", "_"}
BadChars == {"/", ":", "@", "[", "^", "{", "~", " ", "."}

\* the ids of one character repeated, and the same with another character
\* in the first or in the last place
JmapIds ==
    { Rep(c, n) : c \in GoodChars, n \in IdLengths }
    \cup { c \o Rep("a", n - 1) : c \in GoodChars \cup BadChars,
                                  n \in IdLengths \ {0} }
    \cup { Rep("a", n - 1) \o c : c \in GoodChars \cup BadChars,
                                  n \in IdLengths \ {0} }

\* the collections that to_ical checks the ids of, each with an entry that
\* it converts
IdCollectionEntries ==
    [participants |-> Guest,
     links |-> json_object([href |-> json_string("https://example.com/a")]),
     locations |-> json_object([name |-> json_string("Room 1")]),
     virtualLocations |->
         json_object([uri |-> json_string("https://meet.example.com/1")]),
     alerts |-> json_object([offset |-> json_string("PT15M")])]

\* the timed event with the one entry under id in the collection
JmapIdEvent(name, id, entry) ==
    json_object_set(
        json_object_set(EventOf(DOMAIN EventFields, TimedEvent), "replyTo",
                        json_object([imip |-> json_string(OrganizerUri)])),
        name, json_object([k \in {id} |-> entry]))

JmapIdEvents ==
    { JmapIdEvent(name, id, IdCollectionEntries[name]) :
        name \in DOMAIN IdCollectionEntries, id \in JmapIds }
    \cup { JmapIdEvent("locations", id,
                       json_object([rel |-> json_string("end"),
                                    timeZone |-> json_string(tzid)])) :
             id \in JmapIds, tzid \in {"Europe/Vienna", "America/New_York"} }

Init_jmapid ==
    /\ pc = "start"
    /\ obj \in JmapIdEvents
    /\ vcalendar = NULL
    /\ jsevent = NULL
    /\ jsevents = NULL
    /\ jerr \in {NULL, NoError}
    /\ context = NULL
    /\ jprops = NULL
    /\ obj_out = obj
    /\ loop = NULL

Spec_jmapid == Init_jmapid /\ [][Next]_vars

----------------------------------------------------------------------------
(* Events with and without replyTo and participants                        *)

\* the values of replyTo and of participants in these events
ReplyTos ==
    {ABSENT, json_null, json_object(<<>>),
     json_object([imip |-> json_string(OrganizerUri)])}

ParticipantSets ==
    {ABSENT, json_null, json_object(<<>>),
     json_object([o1 |-> Owner([email |-> json_string("o@example.com")])]),
     json_object([p1 |-> Guest]),
     json_object([o1 |-> OwnerByEmail, p1 |-> Guest])}

ReplyToEvents ==
    LET base == EventOf(DOMAIN EventFields, TimedEvent)
        set(event, k, v) == IF v = ABSENT THEN event
                            ELSE json_object_set(event, k, v)
        pairs == { x \in ReplyTos \X ParticipantSets :
                     x[1] = json_object(<<>>) => json_object_size(x[2]) = 0 }
    IN { set(set(base, "replyTo", x[1]), "participants", x[2]) : x \in pairs }

Init_replyto ==
    /\ pc = "start"
    /\ obj \in ReplyToEvents
    /\ vcalendar = NULL
    /\ jsevent = NULL
    /\ jsevents = NULL
    /\ jerr \in {NULL, NoError}
    /\ context = NULL
    /\ jprops = NULL
    /\ obj_out = obj
    /\ loop = NULL

Spec_replyto == Init_replyto /\ [][Next]_vars

----------------------------------------------------------------------------
(* Events with a start zone, an end zone and overrides of them             *)

ZoneTimeZones ==
    {json_string("Europe/Vienna"), json_string("Mars/Phobos"), json_null, ABSENT}

EndLocation(timeZone) ==
    json_object([rel |-> json_string("end"), timeZone |-> timeZone])

ZoneLocations ==
    { ABSENT, json_null,
      json_object([end1 |-> EndLocation(json_string("America/New_York"))]),
      json_object([end1 |-> EndLocation(json_string("Europe/Vienna"))]),
      json_object([end1 |-> EndLocation(json_string("Mars/Phobos"))]),
      json_object([end1 |-> EndLocation(json_null)]),
      json_object([end1 |-> EndLocation(json_integer(5))]),
      json_object([loc1 |-> json_object([name |-> json_string("Room 1")]),
                   end1 |-> EndLocation(json_string("America/New_York"))]),
      json_object([loc1 |-> EndLocation(json_string("Europe/Vienna")),
                   end1 |-> EndLocation(json_string("America/New_York"))]),
      json_object([loc1 |-> EndLocation(json_string("America/New_York")),
                   end1 |-> EndLocation(json_string("Europe/Vienna"))]),
      json_object([loc1 |-> EndLocation(json_string("Europe/Vienna")),
                   end1 |-> EndLocation(json_string("Mars/Phobos"))]),
      json_object([loc1 |-> json_object(
                                [name |-> json_string("Room 1"),
                                 timeZone |-> json_string("Mars/Phobos")])]),
      json_object([loc1 |-> json_object(<<>>)]),
      json_object([loc1 |-> json_object([rel |-> json_string("end")])]),
      json_object([loc1 |-> json_object(
                                [name |-> json_string("Room 1"),
                                 linkIds |-> json_object([l1 |-> json_true])])]) }

\* the patches of the override of these events, ABSENT for no override
ZonePatches ==
    { ABSENT,
      json_object([title |-> json_string("Weekly sync - cancelled")]),
      json_object([timeZone |-> json_null]),
      json_object([timeZone |-> json_string("America/New_York")]),
      json_object([locations |-> json_null]),
      json_object([locations |->
          json_object([end1 |-> EndLocation(json_string("America/New_York"))])]) }

ZoneEvents ==
    LET set(event, k, v) == IF v = ABSENT THEN json_object_del(event, k)
                            ELSE json_object_set(event, k, v)
        override(patch) ==
            IF patch = ABSENT THEN ABSENT
            ELSE json_object([k \in {"2020-01-08T09:00:00"} |-> patch])
    IN { set(set(set(EventOf(DOMAIN EventFields, base), "timeZone", tz),
                 "locations", locations),
             "recurrenceOverrides", override(patch)) :
           base \in {TimedEvent, AllDayEvent}, tz \in ZoneTimeZones,
           locations \in ZoneLocations, patch \in ZonePatches }

Init_zones ==
    /\ pc = "start"
    /\ obj \in ZoneEvents
    /\ vcalendar = NULL
    /\ jsevent = NULL
    /\ jsevents = NULL
    /\ jerr \in {NULL, NoError}
    /\ context = NULL
    /\ jprops = NULL
    /\ obj_out = obj
    /\ loop = NULL

Spec_zones == Init_zones /\ [][Next]_vars

----------------------------------------------------------------------------
(* Events and calendars with recurrence rules                              *)

\* the most fields in which a recurrence rule differs from a base rule
MaxRuleFields == 1

\* the values of a byX field with the range lower..upper: its bounds, the
\* integers next to them, zero, an array whose second element is out of
\* range, and the empty array
ByXArrays(lower, upper) ==
    { json_array(<<json_integer(lower)>>),
      json_array(<<json_integer(upper)>>),
      json_array(<<json_integer(lower - 1)>>),
      json_array(<<json_integer(upper + 1)>>),
      json_array(<<json_integer(0)>>),
      json_array(<<json_integer(1), json_integer(upper + 1)>>),
      json_array(<<>>) }

\* the fields of a recurrence rule of the universe, each with the values
\* that it takes
RuleFields ==
    [frequency |-> {json_string("daily"), json_string("weekly"),
                    json_string("fortnightly")},
     interval |-> {json_integer(1), json_integer(2), json_integer(0), ABSENT},
     skip |-> {json_string("forward"), json_string(""), ABSENT},
     rscale |-> {json_string("gregorian"), ABSENT},
     firstDayOfWeek |-> {json_string("su"), json_string("xx"), ABSENT},
     byDay |-> {json_array(<<json_object([day |-> json_string("tu")])>>),
                json_array(<<json_object([day |-> json_string("mo"),
                                          nthOfPeriod |-> json_integer(0 - 1)])>>),
                json_array(<<json_object([day |-> json_string("xx")])>>),
                json_array(<<>>), ABSENT},
     byMonth |-> {json_array(<<json_string("12"), json_string("5L")>>),
                  json_array(<<json_string("1"), json_string("0")>>),
                  json_array(<<json_string("5X")>>),
                  json_array(<<json_string("x"), json_integer(1)>>), ABSENT},
     byDate |-> ByXArrays(0 - 31, 31) \cup {ABSENT},
     byYearDay |-> ByXArrays(0 - 366, 366) \cup {ABSENT},
     byWeekNo |-> ByXArrays(0 - 53, 53) \cup {ABSENT},
     byHour |-> ByXArrays(0, 23) \cup {ABSENT},
     byMinute |-> ByXArrays(0, 59) \cup {ABSENT},
     bySecond |-> ByXArrays(0, 59) \cup {ABSENT},
     bySetPosition |-> ByXArrays(0, 59) \cup {ABSENT},
     count |-> {json_integer(3), json_integer(0), ABSENT},
     until |-> {json_string("2020-02-01T09:00:00"), json_string("tomorrow"),
                ABSENT}]

RuleOf(f) == json_object([k \in {x \in DOMAIN f : f[x] # ABSENT} |-> f[k]])

\* the base rules: a daily rule that never ends, and one that gives a count
\* and an until
BaseRules ==
    { [k \in DOMAIN RuleFields |->
          CASE k = "frequency" -> json_string("daily")
            [] k = "count" -> end.count
            [] k = "until" -> end.until
            [] OTHER -> ABSENT] :
        end \in { [count |-> ABSENT, until |-> ABSENT],
                  [count |-> json_integer(3),
                   until |-> json_string("2020-02-01T09:00:00")] } }

\* the rules that differ from a base rule in the fields of D
RuleDeviations(base, D) ==
    { RuleOf([k \in DOMAIN RuleFields |-> IF k \in D THEN f[k] ELSE base[k]]) :
        f \in { g \in [D -> UNION {RuleFields[k] : k \in D}] :
                  \A k \in D : g[k] \in RuleFields[k] } }

Rules ==
    UNION { RuleDeviations(base, D) :
              base \in BaseRules,
              D \in { X \in SUBSET DOMAIN RuleFields :
                        Cardinality(X) <= MaxRuleFields } }

\* a timed event with each of the rules, an all-day event with the base
\* rules
RecurEvents ==
    { json_object_set(EventOf(DOMAIN EventFields, TimedEvent),
                      "recurrenceRule", rule) : rule \in Rules }
    \cup { json_object_set(EventOf(DOMAIN EventFields, AllDayEvent),
                           "recurrenceRule", RuleOf(base)) : base \in BaseRules }

\* the parts that an RRULE of the universe has beside its FREQ
RRuleParts ==
    << rrule_part("COUNT", 3),
       rrule_part("UNTIL", icaltime(2020, 2, 1, 8, 0, 0, FALSE, TRUE)),
       rrule_part("INTERVAL", 2),
       rrule_part("WKST", "SU"),
       rrule_part("BYDAY", <<[day |-> "MO", pos |-> 0 - 1]>>),
       rrule_part("BYMONTHDAY", <<15, 1>>),
       rrule_part("BYHOUR", <<9, 3>>) >>

\* the parts whose positions are in P, from the position i on
RECURSIVE PartsOf(_, _)
PartsOf(P, i) ==
    IF i > Len(RRuleParts) THEN <<>>
    ELSE (IF i \in P THEN <<RRuleParts[i]>> ELSE <<>>) \o PartsOf(P, i + 1)

RRules ==
    { icalrecurrencetype_from_string(
          <<rrule_part("FREQ", freq)>> \o PartsOf(P, 1)) :
        freq \in {"DAILY", "WEEKLY"}, P \in SUBSET DOMAIN RRuleParts }

\* a VEVENT that recurs by rrule, its DTSTART in the zone tzid if tzid is
\* not ""
RRuleVEvent(rrule, tzid) ==
    [kind |-> "VEVENT", comps |-> <<>>,
     props |-> <<TextProp("UID", "u1"),
                 icalproperty_new("DTSTAMP", Stamp1),
                 IF tzid = "" THEN icalproperty_new("DTSTART", Start1)
                 ELSE icalproperty_add_parameter(
                          icalproperty_new("DTSTART", Start1), "TZID", tzid),
                 TextProp("SUMMARY", "Weekly sync"),
                 icalproperty_new("RRULE", rrule)>>]

RecurCalendars ==
    { VCalendar(<<RRuleVEvent(rrule, tzid)>>) :
        rrule \in RRules, tzid \in {"", "Europe/Vienna"} }

Init_recur ==
    /\ pc = "start"
    /\ \/ obj \in RecurEvents /\ vcalendar = NULL
       \/ obj = NULL /\ vcalendar \in RecurCalendars
    /\ jsevent = NULL
    /\ jsevents = NULL
    /\ jerr \in {NULL, NoError}
    /\ context = NULL
    /\ jprops = NULL
    /\ obj_out = obj
    /\ loop = NULL

Spec_recur == Init_recur /\ [][Next]_vars

----------------------------------------------------------------------------
(* Properties of to_ical                                                   *)

\* jmapical_toical has returned
Returned == pc # "start"

\* the strings of a JSON array of strings
StringsOf(jarr) == { jarr.a[i].s : i \in DOMAIN jarr.a }

\* the members of a sequence
Range(q) == { q[i] : i \in DOMAIN q }

\* C4: with an error struct that says Success on entry, jmapical_toical
\* returns a tree if and only if the struct still says Success; when an
\* invalid property was recorded the code is Props, the list holds exactly
\* the recorded paths and no tree is returned.
C4_TreeIffSuccess ==
    (Returned /\ jerr # NULL) =>
        /\ (vcalendar # NULL) <=> (jerr.code = JMAPICAL_ERROR_NONE)
        /\ have_invalid_props(context) =>
              /\ jerr.code = JMAPICAL_ERROR_PROPS
              /\ vcalendar = NULL
              /\ jerr.props # NULL
              /\ StringsOf(jerr.props) = Range(context.invalid)

C4_Witness ==
    /\ pc = "toical"
    /\ jerr # NULL
    /\ Len(context.invalid) >= 2
    /\ vcalendar = NULL

\* C5: on an event without a string-valued uid jmapical_toical returns no
\* tree, sets the code UID, records no invalid property and converts no
\* other field.
C5_NoUidNoConversion ==
    (Returned /\ json_string_value(json_object_get(obj, "uid")) = NULL) =>
        /\ vcalendar = NULL
        /\ jerr # NULL => jerr = [code |-> JMAPICAL_ERROR_UID, props |-> NULL]
        /\ context.invalid = <<>>
        /\ context.propstr = <<>>

C5_Witness ==
    /\ pc = "toical"
    /\ json_is_integer(json_object_get(obj, "uid"))
    /\ json_object_get(obj, "@type") = json_string("jstask")
    /\ jerr # NULL
    /\ jerr.code = JMAPICAL_ERROR_UID

\* the recurrence overrides of the converted event, and the date that the
\* loop of overrides_to_ical reads from a key, NULL when it reads none
OverridesOf(event) == json_object_get(event, "recurrenceOverrides")

OverrideIds(event) ==
    IF json_is_object(OverridesOf(event)) THEN DOMAIN OverridesOf(event).o
    ELSE {}

OverrideDate(id) ==
    localdate_to_icaltime(id, context.tzstart, context.is_allday)

OverridePath(id) == "recurrenceOverrides/" \o id

\* how many properties of that name and value the main VEVENT of the tree
\* has, and the exception VEVENTs of the tree for a date
CountAt(ical, name, date) ==
    Cardinality({ i \in DOMAIN ical.comps[1].props :
                    /\ ical.comps[1].props[i].name = name
                    /\ ical.comps[1].props[i].val = date })

ExceptionsAt(ical, date) ==
    { i \in DOMAIN ical.comps :
        /\ ical.comps[i].kind = "VEVENT"
        /\ icalcomponent_get_first_property(ical.comps[i], "RECURRENCE-ID") # NULL
        /\ icalcomponent_get_recurrenceid(ical.comps[i]) = date }

HasForbiddenKey(patch) == \E key \in DOMAIN patch.o : key \in ForbiddenOverrideKeys

\* C6: an override patch with a forbidden key and allowed keys has only the
\* forbidden keys dropped: the tree has an exception VEVENT whose
\* RECURRENCE-ID is the override key, and nothing invalid is recorded for
\* the forbidden key.
C6_ForbiddenKeysDropped ==
    Returned =>
        \A id \in OverrideIds(obj) :
            LET patch == OverridesOf(obj).o[id]
            IN (/\ OverrideDate(id) # NULL
                /\ HasForbiddenKey(patch)
                /\ "excluded" \notin DOMAIN patch.o
                /\ \E key \in DOMAIN patch.o : key \notin ForbiddenOverrideKeys)
               => /\ \A key \in DOMAIN patch.o :
                       (OverridePath(id) \o "/" \o key) \notin Range(context.invalid)
                  /\ vcalendar # NULL =>
                       Cardinality(ExceptionsAt(vcalendar, OverrideDate(id))) = 1

\* C7: of the entries of recurrenceOverrides, a key that is no LocalDate is
\* recorded as invalid at recurrenceOverrides/<key> and adds nothing;
\* otherwise {excluded: true} adds one EXDATE and no exception VEVENT, an
\* empty object adds one RDATE, and any other patch without forbidden keys
\* adds one exception VEVENT whose RECURRENCE-ID is that date.
C7_OverrideEntries ==
    Returned =>
        /\ \A id \in OverrideIds(obj) :
              LET patch == OverridesOf(obj).o[id]
                  date == OverrideDate(id)
              IN /\ date = NULL => OverridePath(id) \in Range(context.invalid)
                 /\ (date # NULL /\ vcalendar # NULL) =>
                      CASE patch = json_object([excluded |-> json_true]) ->
                             /\ CountAt(vcalendar, "EXDATE", date) = 1
                             /\ ExceptionsAt(vcalendar, date) = {}
                        [] patch = json_object(<<>>) ->
                             CountAt(vcalendar, "RDATE", date) = 1
                        [] HasForbiddenKey(patch) -> TRUE
                        [] OTHER ->
                             Cardinality(ExceptionsAt(vcalendar, date)) = 1
        /\ vcalendar # NULL =>
              Cardinality({ i \in DOMAIN vcalendar.comps :
                              vcalendar.comps[i].kind = "VEVENT" }) - 1
              + icalcomponent_count_properties(vcalendar.comps[1], "EXDATE")
              + icalcomponent_count_properties(vcalendar.comps[1], "RDATE")
              <= Cardinality({ id \in OverrideIds(obj) : OverrideDate(id) # NULL })

\* the event has one participant, and that participant is equal to the
\* organizer that replyTo names, modulo the defaults, with roles {owner: true}
OrganizerOnly(event) ==
    LET replyTo == json_object_get(event, "replyTo")
        participants == json_object_get(event, "participants")
        only(jpart) ==
            /\ json_object_get(jpart, "roles") = json_object([owner |-> json_true])
            /\ participant_equals(
                   participant_from_icalorganizer(participants_orga(replyTo)),
                   jpart)
    IN /\ json_is_object(replyTo)
       /\ json_is_object(participants)
       /\ json_object_size(participants) = 1
       /\ only(participants.o[Head(json_object_keys(participants))])

\* C10: for an event whose only participant is equal to the organizer of
\* replyTo, modulo the defaults, with roles {owner: true}, jmapical_toical
\* succeeds, the VEVENT has an ORGANIZER and no ATTENDEE, and to_jmap of the
\* tree gives participants with that one participant.
C10_OrganizerOnlyRoundTrip ==
    (Returned /\ OrganizerOnly(obj)) =>
        /\ jerr # NULL => jerr.code = JMAPICAL_ERROR_NONE
        /\ vcalendar # NULL
        /\ icalcomponent_count_properties(vcalendar.comps[1], "ORGANIZER") = 1
        /\ icalcomponent_count_properties(vcalendar.comps[1], "ATTENDEE") = 0
        /\ pc = "tojmap" =>
              /\ json_is_object(json_object_get(jsevent, "participants"))
              /\ DOMAIN json_object_get(jsevent, "participants").o
                    = DOMAIN json_object_get(obj, "participants").o

\* the alerts of the converted event
AlertsOf(event) ==
    IF json_is_object(json_object_get(event, "alerts"))
    THEN json_object_get(event, "alerts").o ELSE <<>>

\* the VALARMs of the main VEVENT of the tree that have the UID id, and
\* those without UID that have RELATED-TO id with RELTYPE=SNOOZE and an
\* absolute TRIGGER
PrimaryAlarms(ical, id) ==
    { i \in DOMAIN ical.comps[1].comps :
        /\ ical.comps[1].comps[i].kind = "VALARM"
        /\ icalcomponent_get_uid(ical.comps[1].comps[i]) = json_string(id) }

SnoozeAlarms(ical, id) ==
    { i \in DOMAIN ical.comps[1].comps :
        LET a == ical.comps[1].comps[i]
        IN /\ a.kind = "VALARM"
           /\ icalcomponent_get_uid(a) = NULL
           /\ icalcomponent_count_properties(a, "RELATED-TO") = 1
           /\ icalcomponent_get_first_property(a, "RELATED-TO")
                = icalproperty_add_parameter(TextProp("RELATED-TO", id),
                                             "RELTYPE", "SNOOZE")
           /\ icalcomponent_count_properties(a, "TRIGGER") = 1
           /\ ~icaltime_is_null_time(
                  icalcomponent_get_first_property(a, "TRIGGER").val.time)
           /\ icalcomponent_get_first_property(a, "TRIGGER").val.time.is_utc }

\* the strings that are a UTC date-time
UTCDates == { e.str \o "Z" : e \in StrptimeTable }

\* C12: every alert with a valid id yields exactly one VALARM with the UID
\* of the alert, whose TRIGGER is a negative duration for before-start and
\* before-end and a positive one for after-start and after-end; and it
\* yields exactly one snooze VALARM (no UID, RELATED-TO the alert id,
\* RELTYPE=SNOOZE, absolute TRIGGER) if and only if its snoozed is a UTC
\* date-time, and none otherwise.
C12_AlertAlarms ==
    (Returned /\ vcalendar # NULL) =>
        \A id \in DOMAIN AlertsOf(obj) :
            LET alert == AlertsOf(obj)[id]
                relativeTo == json_object_get(alert, "relativeTo")
                snoozed == json_object_get(alert, "snoozed")
                trigger(a) == icalcomponent_get_first_property(a, "TRIGGER")
            IN is_valid_jmapid(id) =>
                 /\ Cardinality(PrimaryAlarms(vcalendar, id)) = 1
                 /\ \A i \in PrimaryAlarms(vcalendar, id) :
                      LET a == vcalendar.comps[1].comps[i]
                      IN /\ icalcomponent_count_properties(a, "TRIGGER") = 1
                         /\ icaltime_is_null_time(trigger(a).val.time)
                         /\ relativeTo \in {json_string("before-start"),
                                            json_string("before-end")}
                              => trigger(a).val.duration.is_neg
                         /\ relativeTo \in {json_string("after-start"),
                                            json_string("after-end")}
                              => ~trigger(a).val.duration.is_neg
                 /\ Cardinality(SnoozeAlarms(vcalendar, id))
                      = IF json_is_string(snoozed) /\ snoozed.s \in UTCDates
                        THEN 1 ELSE 0

C12_Witness ==
    /\ pc = "toical"
    /\ vcalendar # NULL
    /\ \E id \in DOMAIN AlertsOf(obj) :
          /\ is_valid_jmapid(id)
          /\ json_object_get(AlertsOf(obj)[id], "relativeTo")
               = json_string("after-end")
          /\ Cardinality(SnoozeAlarms(vcalendar, id)) = 1
          /\ Cardinality(PrimaryAlarms(vcalendar, id)) = 1
    /\ \E id \in DOMAIN AlertsOf(obj) :
          /\ json_object_get(AlertsOf(obj)[id], "relativeTo") = NULL
          /\ Cardinality(SnoozeAlarms(vcalendar, id)) = 0
          /\ Cardinality(PrimaryAlarms(vcalendar, id)) = 1

\* the byX fields of a recurrence rule that hold integers, each with its
\* range and whether zero is in it
ByXRanges ==
    [byDate |-> [lower |-> 0 - 31, upper |-> 31, zero |-> FALSE],
     byYearDay |-> [lower |-> 0 - 366, upper |-> 366, zero |-> FALSE],
     byWeekNo |-> [lower |-> 0 - 53, upper |-> 53, zero |-> FALSE],
     byHour |-> [lower |-> 0, upper |-> 23, zero |-> TRUE],
     byMinute |-> [lower |-> 0, upper |-> 59, zero |-> TRUE],
     bySecond |-> [lower |-> 0, upper |-> 59, zero |-> TRUE],
     bySetPosition |-> [lower |-> 0, upper |-> 59, zero |-> TRUE]]

InByXRange(n, r) == n >= r.lower /\ n <= r.upper /\ (n # 0 \/ r.zero)

\* the elements of the byX field of the rule of the event, <<>> without one
ByXOf(event, field) ==
    LET arr == json_object_get(json_object_get(event, "recurrenceRule"), field)
    IN IF json_array_size(arr) > 0 THEN arr.a ELSE <<>>

\* the fields of ByXRanges for which the property of C13 holds
ByXRangeChecked(fields) ==
    context # NULL =>
        \A field \in fields :
            \A k \in DOMAIN ByXOf(obj, field) :
                ("recurrenceRule/" \o field \o "/" \o IntToStr(k - 1)
                     \in Range(context.invalid))
                <=> ~InByXRange(ByXOf(obj, field)[k].i, ByXRanges[field])

\* C13: after to_ical, for each integer byX field of the recurrence rule and
\* each index i of its array, the invalid property recurrenceRule/<field>/<i>
\* is recorded if and only if the element at i is outside the range of the
\* field.
C13_ByXRange == ByXRangeChecked(DOMAIN ByXRanges)

\* the recurrence rule of an event, NULL without one
RuleOfEvent(event) ==
    IF JNOTNULL(json_object_get(event, "recurrenceRule"))
    THEN json_object_get(event, "recurrenceRule") ELSE NULL

HasCountAndUntil(rule) ==
    /\ json_object_get(rule, "count") # NULL
    /\ json_object_get(rule, "until") # NULL

\* the RRULE values of the VEVENTs of a VCALENDAR
RRulesOf(ical) ==
    IF ical = NULL THEN {}
    ELSE UNION { { ical.comps[i].props[j].val :
                     j \in { k \in DOMAIN ical.comps[i].props :
                               ical.comps[i].props[k].name = "RRULE" } } :
                   i \in { k \in DOMAIN ical.comps :
                             ical.comps[k].kind = "VEVENT" } }

\* the RRULE of the VEVENT that to_jmap converted has a count and an until
RRuleHasBoth ==
    /\ obj = NULL
    /\ pc = "tojmap"
    /\ \E rrule \in RRulesOf(vcalendar) :
          rrule.count # 0 /\ ~icaltime_is_null_time(rrule.until)

\* C14: the recurrenceRule that to_jmap returns never has both count and
\* until, and it has the count of an RRULE that has both; to_ical on a
\* recurrenceRule with both keys records recurrenceRule/count and
\* recurrenceRule/until as invalid and puts no RRULE into the tree.
C14_CountXorUntil ==
    /\ (pc = "tojmap" /\ jsevent # NULL) =>
           ~HasCountAndUntil(RuleOfEvent(jsevent))
    /\ RRuleHasBoth =>
           \E rrule \in RRulesOf(vcalendar) :
              json_object_get(RuleOfEvent(jsevent), "count")
                  = json_integer(rrule.count)
    /\ (context # NULL /\ HasCountAndUntil(RuleOfEvent(obj))) =>
           /\ "recurrenceRule/count" \in Range(context.invalid)
           /\ "recurrenceRule/until" \in Range(context.invalid)
           /\ RRulesOf(vcalendar) = {}

\* to_jmap has converted a VEVENT whose RRULE has both, and has kept the
\* count
C14_Witness ==
    /\ RRuleHasBoth
    /\ json_object_get(RuleOfEvent(jsevent), "count") = json_integer(3)

\* to_ical has returned a tree for an event whose rule has both keys
C14_ToIcalCase ==
    context # NULL /\ HasCountAndUntil(RuleOfEvent(obj)) /\ vcalendar # NULL

----------------------------------------------------------------------------
(* Ids of the entries of an event                                          *)

\* the collections of an event whose entries have ids
IdCollections ==
    {"participants", "links", "locations", "virtualLocations", "alerts"}

\* the ids of a collection of an event: none when it is absent or null
KeysOf(event, name) ==
    LET keys(c) == IF json_is_object(c) THEN DOMAIN c.o ELSE {}
    IN keys(json_object_get(event, name))

\* to_ical accepted obj: it returned a tree and recorded no invalid
\* property; and to_jmap converted the tree
RoundTripped ==
    /\ pc = "tojmap"
    /\ obj # NULL
    /\ vcalendar # NULL
    /\ ~have_invalid_props(context)

IdsRoundTrip(names) ==
    RoundTripped => \A name \in names : KeysOf(jsevent, name) = KeysOf(obj, name)

\* C15: for every event that jmapical_toical accepts, the participants,
\* links, locations, virtualLocations and alerts of the event that
\* jmapical_tojmap makes of the VCALENDAR have the keys that they have in
\* the event, an end-time-zone location included.
C15_IdsRoundTrip == IdsRoundTrip(IdCollections)

----------------------------------------------------------------------------
(* Field selection                                                         *)

\* to_jmap returned an event for the names of jprops
Selected == pc = "tojmap" /\ jprops # NULL /\ jsevent # NULL

\* a LOCATION or X-JMAP-LOCATION of a VEVENT of the calendar has an ALTREP
HasAltrep(ical) ==
    \E i \in DOMAIN ical.comps :
       \E j \in DOMAIN ical.comps[i].props :
          LET prop == ical.comps[i].props[j]
          IN /\ prop.name \in {"LOCATION", "X-JMAP-LOCATION"}
             /\ icalproperty_get_first_parameter(prop, "ALTREP") # NULL

C16_WitnessPlain ==
    /\ Selected
    /\ DOMAIN jprops.o = {"title"}
    /\ DOMAIN jsevent.o = {"@type", "uid", "title"}

C16_WitnessAltrep ==
    /\ Selected
    /\ DOMAIN jprops.o = {"locations"}
    /\ DOMAIN jsevent.o = {"@type", "uid", "locations", "links"}

----------------------------------------------------------------------------
(* C17: the input of jmapical_toical                                       *)

\* the override ids and the participant ids whose objects the call changed
ChangedEntries(name) ==
    LET before == json_object_get(obj, name)
        after == json_object_get(obj_out, name)
    IN IF before = NULL \/ ~json_is_object(before) THEN {}
       ELSE { k \in DOMAIN before.o : after.o[k] # before.o[k] }

\* C17: jmapical_toical leaves its input JSON event unchanged: after the
\* call the event, with every recurrenceOverrides patch object and every
\* participant object, is equal to its value before the call.
C17_InputUnchanged == Returned => obj_out = obj

\* where the input changes: an override is given a start, or the organizer
\* among the participants is given a sendTo
C17_OverrideChanged == Returned => ChangedEntries("recurrenceOverrides") = {}
C17_ParticipantChanged == Returned => ChangedEntries("participants") = {}
C17_OnlyEntriesChange ==
    Returned =>
        \A name \in DOMAIN obj.o \ {"recurrenceOverrides", "participants"} :
            name \in DOMAIN obj_out.o /\ obj_out.o[name] = obj.o[name]
----------------------------------------------------------------------------
(* C18: the constraints of an all-day event                                *)

IsAllDay(event) == json_object_get(event, "isAllDay") = json_true

\* the event has a time zone that is not null
HasTimeZone(event) == JNOTNULL(json_object_get(event, "timeZone"))

\* the event has an end location whose time zone is not null
HasEndTimeZone(event) ==
    LET locations == json_object_get(event, "locations")
    IN /\ JNOTNULL(locations) /\ json_is_object(locations)
       /\ \E id \in DOMAIN locations.o :
             /\ json_is_object(locations.o[id])
             /\ location_is_endtimezone(locations.o[id])
             /\ JNOTNULL(json_object_get(locations.o[id], "timeZone"))

\* the duration of the event has an hour, a minute or a second
HasTimeDuration(event) ==
    LET duration == json_object_get(event, "duration")
    IN /\ json_is_string(duration)
       /\ ~icaldurationtype_is_bad_duration(icaldurationtype_from_string(duration.s))
       /\ icaldurationtype_from_string(duration.s).hms

\* the start of the event has a time of day
HasTimeOfDay(event) ==
    LET start == json_object_get(event, "start")
    IN /\ json_is_string(start)
       /\ localdate_to_tm(start.s) # NULL
       /\ \/ localdate_to_tm(start.s).hour # 0
          \/ localdate_to_tm(start.s).minute # 0
          \/ localdate_to_tm(start.s).second # 0

\* to_ical has rejected the event: an invalid property is recorded, and
\* the caller that asks for the error gets no VCALENDAR
Rejected ==
    /\ have_invalid_props(context)
    /\ jerr # NULL => vcalendar = NULL

AllDayCase(broken(_)) ==
    (pc = "toical" /\ obj # NULL /\ IsAllDay(obj) /\ broken(obj)) => Rejected

\* C18: to_ical enforces the all-day constraints: an event with isAllDay
\* true and a non-null timeZone, a non-null end-location timeZone, a
\* duration with an hour, minute or second, or a start with a time of day
\* has an invalid property recorded, and no VCALENDAR is returned for it.
C18_AllDayConstraints ==
    /\ AllDayCase(HasTimeZone)
    /\ AllDayCase(HasEndTimeZone)
    /\ AllDayCase(HasTimeDuration)
    /\ AllDayCase(HasTimeOfDay)

\* the constraints one by one
C18_TimeZone == AllDayCase(HasTimeZone)
C18_EndTimeZone == AllDayCase(HasEndTimeZone)
C18_Duration == AllDayCase(HasTimeDuration)
C18_Start == AllDayCase(HasTimeOfDay)
----------------------------------------------------------------------------
(* C19: the ids of the entries of a collection                             *)

\* the characters [A-Za-z0-9_-]
IdAlphabet ==
    LET str == "ABCDEFGHIJKLMNOPQRSTUVWXYZabcdefghijklmnopqrstuvwxyz0123456789_-"
    IN { SubSeq(str, i, i) : i \in 1..Len(str) }

\* id has 1 to 256 characters, each one of the alphabet
WellFormedId(id) ==
    /\ Len(id) \in 1..256
    /\ \A i \in 1..Len(id) : SubSeq(id, i, i) \in IdAlphabet

\* the invalid property <name>/<id> is recorded
InvalidAt(name, id) ==
    \E i \in DOMAIN context.invalid :
        context.invalid[i]
            = json_pointer_encode(name) \o "/" \o json_pointer_encode(id)

\* the component and the components below it
RECURSIVE ComponentsOf(_)
ComponentsOf(comp) ==
    {comp} \cup UNION { ComponentsOf(comp.comps[i]) : i \in DOMAIN comp.comps }

\* a property or a component of the tree bears the id: a property in its
\* X-JMAP-ID, a component in its UID
Emitted(ical, id) ==
    \E comp \in ComponentsOf(ical) :
        \/ \E i \in DOMAIN comp.props :
              \E j \in DOMAIN comp.props[i].params :
                 /\ comp.props[i].params[j].name = "X-JMAP-ID"
                 /\ comp.props[i].params[j].value = id
        \/ /\ comp.kind = "VALARM"
           /\ \E i \in DOMAIN comp.props :
                 comp.props[i].name = "UID" /\ comp.props[i].val = json_string(id)

\* obj has the entry id in the collection name
HasEntry(name, id) ==
    /\ pc = "toical"
    /\ obj # NULL
    /\ id \in KeysOf(obj, name)

\* C19: is_valid_jmapid accepts exactly the strings of 1 to 256 characters
\* of [A-Za-z0-9_-]; for every key of participants, links, locations,
\* virtualLocations and alerts that it rejects, to_ical records the invalid
\* property <collection>/<key> and puts no property and no component for
\* the entry into the VEVENT.
C19_JmapIds ==
    \A name \in IdCollections :
        \A id \in (IF pc = "toical" /\ obj # NULL THEN KeysOf(obj, name) ELSE {}) :
            /\ is_valid_jmapid(id) <=> WellFormedId(id)
            /\ InvalidAt(name, id) <=> ~WellFormedId(id)
            /\ (~WellFormedId(id) /\ vcalendar # NULL) => ~Emitted(vcalendar, id)

\* the parts of it
C19_Function ==
    \A name \in IdCollections :
        \A id \in (IF pc = "toical" /\ obj # NULL THEN KeysOf(obj, name) ELSE {}) :
            is_valid_jmapid(id) <=> WellFormedId(id)
C19_Recorded ==
    \A name \in IdCollections :
        \A id \in (IF pc = "toical" /\ obj # NULL THEN KeysOf(obj, name) ELSE {}) :
            InvalidAt(name, id) <=> ~WellFormedId(id)
C19_NotEmitted ==
    \A name \in IdCollections :
        \A id \in (IF pc = "toical" /\ obj # NULL THEN KeysOf(obj, name) ELSE {}) :
            (~WellFormedId(id) /\ vcalendar # NULL) => ~Emitted(vcalendar, id)
----------------------------------------------------------------------------
(* C20: the stack of property paths                                        *)

\* an override of obj has a key that makes overrides_to_ical skip it
HasIgnoredOverride(event) ==
    LET overrides == json_object_get(event, "recurrenceOverrides")
    IN /\ JNOTNULL(overrides) /\ json_is_object(overrides)
       /\ \E id \in DOMAIN overrides.o :
             \E key \in DOMAIN overrides.o[id].o : key \in ForbiddenOverrideKeys

\* the VEVENT that jmapical_tojmap converted has an alarm that became an
\* alert
HasConvertedAlarm(ical) ==
    alerts_from_ical_alarms(ical.comps[tojmap_todo(ical)[1]]) # <<>>

\* C20: the stack of property paths is balanced: when the conversion of an
\* event to iCalendar or of a VEVENT to an event returns, the stack is as
\* deep as on entry, that is empty, on every path, that of an override
\* skipped for a forbidden key and that of an entry rejected by validation
\* included.
C20_StackBalanced ==
    /\ (pc = "toical" /\ obj # NULL) => context.propstr = <<>>
    /\ (pc = "tojmap" /\ jsevent # NULL)
           => jmapical_tojmap_propstr(vcalendar, jprops) = <<>>

\* where the stack is left with an element: to iCalendar only by an
\* override that is skipped, to an event by each alarm that is converted
C20_OnlyIgnoredOverrides ==
    (pc = "toical" /\ obj # NULL /\ context.propstr # <<>>)
        => HasIgnoredOverride(obj)
C20_OnlyConvertedAlarms ==
    (pc = "tojmap" /\ jsevent # NULL)
        => (jmapical_tojmap_propstr(vcalendar, jprops) # <<>>
               <=> HasConvertedAlarm(vcalendar))
C20_ToIcal == (pc = "toical" /\ obj # NULL) => context.propstr = <<>>
C20_FromIcal ==
    (pc = "tojmap" /\ jsevent # NULL)
        => jmapical_tojmap_propstr(vcalendar, jprops) = <<>>
----------------------------------------------------------------------------
(* C1: the round trip of an event                                          *)

\* the fields of an event that are plain values
RoundTripFields ==
    {"title", "start", "timeZone", "duration", "isAllDay", "sequence",
     "priority", "status", "freeBusyStatus", "privacy", "created", "updated"}

\* the field has in jsevent the value that it has in obj, unless obj has
\* no value for it
FieldRoundTrips(k) ==
    (k \in DOMAIN obj.o /\ obj.o[k] # json_null)
        => (k \in DOMAIN jsevent.o /\ jsevent.o[k] = obj.o[k])

\* C1: for every event that jmapical_toical accepts without error, every
\* field of the event (title, start, timeZone, duration, isAllDay,
\* sequence, priority, status, freeBusyStatus, privacy, created, updated)
\* has the same value in jmapical_tojmap(jmapical_toical(event)), except
\* the fields that are null in the event.
C1_RoundTrip ==
    RoundTripped => \A k \in RoundTripFields : FieldRoundTrips(k)

\* the fields that do come back as they went in
C1_FieldsKept ==
    RoundTripped =>
        \A k \in {"title", "status", "freeBusyStatus", "privacy"} :
            FieldRoundTrips(k)
----------------------------------------------------------------------------
\* C21: the PARTSTAT loop of participant_from_ical ends for every set of
\* ATTENDEEs, cyclic DELEGATED-TO graphs and a DELEGATED-TO without a value
\* included, and it ends within the depth bound of delegate lookups (the
\* lookup that exceeds MaxDelegateDepth is the last one); a chain that
\* exceeds the bound leaves the participant without participationStatus.
C21_LookupsBounded ==
    pc = "partstat" => loop.lookups <= MaxDelegateDepth + 1

C21_OverflowHasNoStatus ==
    (pc = "tojmap" /\ loop.l.depth > MaxDelegateDepth)
        => "participationStatus" \notin DOMAIN jsevent.o

C21_LoopEnds == (pc = "partstat") ~> (pc = "tojmap")

C21_PartstatLoop ==
    /\ [](C21_LookupsBounded /\ C21_OverflowHasNoStatus)
    /\ C21_LoopEnds

\* a chain that ran over the depth bound has ended
C21_Overflowed == pc = "tojmap" /\ loop.l.depth > MaxDelegateDepth

\* the loop is at an ATTENDEE whose DELEGATED-TO has no value
C21_AtNullDelegate ==
    /\ pc = "partstat"
    /\ delegatedto_is_null(loop.prop)
    /\ icalproperty_get_first_parameter(loop.prop, "PARTSTAT")
         = json_string("DELEGATED")

----------------------------------------------------------------------------
\* C22: whenever the VEVENT that to_jmap converts has an ORGANIZER whose
\* URI is the URI of no ATTENDEE, the VEVENT without any ATTENDEE included,
\* participants has a participant for the organizer and its roles are
\* exactly {owner: true}.

\* the VEVENT that jmapical_tojmap converts
FirstVEvent ==
    LET todo == tojmap_todo(vcalendar)
    IN IF todo = <<>> THEN NULL ELSE vcalendar.comps[todo[1]]

\* the ORGANIZER of that VEVENT when no ATTENDEE has its URI, else NULL
LoneOrganizer ==
    LET orga == icalcomponent_get_first_property(FirstVEvent, "ORGANIZER")
        attendees == icalcomponent_get_properties(FirstVEvent, "ATTENDEE")
    IN IF orga # NULL
          /\ \A i \in DOMAIN attendees :
                normalized_uri(attendees[i].val.s) # normalized_uri(orga.val.s)
       THEN orga ELSE NULL

HasOrganizerParticipant ==
    LET participants == json_object_get(jsevent, "participants")
        jorga == IF JNOTNULL(participants)
                 THEN json_object_get(participants,
                                      participant_id_from_ical(LoneOrganizer))
                 ELSE NULL
    IN /\ jorga # NULL
       /\ json_object_get(jorga, "roles") = json_true_set({"owner"})

C22_OrganizerParticipant ==
    (pc = "tojmap" /\ jsevent # NULL /\ FirstVEvent # NULL
       /\ LoneOrganizer # NULL)
        => HasOrganizerParticipant

\* the same for the VEVENTs that have an ATTENDEE
C22_WithAttendees ==
    (pc = "tojmap" /\ jsevent # NULL /\ FirstVEvent # NULL
       /\ LoneOrganizer # NULL
       /\ icalcomponent_get_properties(FirstVEvent, "ATTENDEE") # <<>>)
        => HasOrganizerParticipant

C22_Synthesized ==
    /\ pc = "tojmap" /\ jsevent # NULL /\ FirstVEvent # NULL
    /\ LoneOrganizer # NULL
    /\ HasOrganizerParticipant

C22_NoAttendee ==
    /\ pc = "tojmap" /\ jsevent # NULL /\ FirstVEvent # NULL
    /\ LoneOrganizer # NULL
    /\ icalcomponent_get_properties(FirstVEvent, "ATTENDEE") = <<>>
    /\ ~HasOrganizerParticipant

----------------------------------------------------------------------------
\* C23: in to_ical, when exactly one of replyTo and participants is
\* non-null, participants_to_ical records exactly the invalid properties
\* replyTo and participants and adds no ORGANIZER and no ATTENDEE; when
\* both are null it records and adds nothing; when both are non-null it
\* adds an ORGANIZER, except that an empty replyTo or participants object
\* is recorded as invalid and adds nothing.  In each case the conversion
\* returns.

\* whether the path is one that participants_to_ical records
IsParticipantsPath(path) ==
    \/ path \in {"replyTo", "participants"}
    \/ Len(path) > 8 /\ SubSeq(path, 1, 8) = "replyTo/"
    \/ Len(path) > 13 /\ SubSeq(path, 1, 13) = "participants/"

ParticipantsInvalid ==
    {context.invalid[i] : i \in {j \in DOMAIN context.invalid :
                                   IsParticipantsPath(context.invalid[j])}}

\* the ORGANIZERs and ATTENDEEs of the VEVENT that was made
Scheduling ==
    LET comp == vcalendar.comps[1]
    IN [name \in {"ORGANIZER", "ATTENDEE"} |->
           Len(icalcomponent_get_properties(comp, name))]

ReplyToSet == JNOTNULL(json_object_get(obj, "replyTo"))

ParticipantsSet == JNOTNULL(json_object_get(obj, "participants"))

NoneAdded ==
    vcalendar # NULL => (Scheduling["ORGANIZER"] = 0 /\ Scheduling["ATTENDEE"] = 0)

C23_OneSet ==
    (pc = "toical" /\ ReplyToSet # ParticipantsSet)
        => /\ ParticipantsInvalid = {"replyTo", "participants"}
           /\ NoneAdded

C23_NoneSet ==
    (pc = "toical" /\ ~ReplyToSet /\ ~ParticipantsSet)
        => ParticipantsInvalid = {} /\ NoneAdded

C23_BothSet ==
    (pc = "toical" /\ ReplyToSet /\ ParticipantsSet)
        => /\ json_object_size(json_object_get(obj, "replyTo")) = 0
                => "replyTo" \in ParticipantsInvalid /\ NoneAdded
           /\ json_object_size(json_object_get(obj, "participants")) = 0
                => /\ "participants" \in ParticipantsInvalid
                   /\ vcalendar # NULL => Scheduling["ATTENDEE"] = 0
           /\ (json_object_size(json_object_get(obj, "replyTo")) > 0
                /\ vcalendar # NULL)
                => Scheduling["ORGANIZER"] = 1

C23_Returns == pc # "crashed"

C23_ReplyToParticipants ==
    C23_OneSet /\ C23_NoneSet /\ C23_BothSet /\ C23_Returns

\* the conversion of an event with an empty replyTo and an empty
\* participants object has ended the process
C23_EmptyReplyToCrashed ==
    /\ pc = "crashed"
    /\ json_object_get(obj, "replyTo") = json_object(<<>>)
    /\ json_object_get(obj, "participants") = json_object(<<>>)

\* a tree with an ORGANIZER was made of an event with both
C23_OrganizerAdded ==
    /\ pc = "toical" /\ ReplyToSet /\ ParticipantsSet
    /\ vcalendar # NULL /\ Scheduling["ORGANIZER"] = 1

----------------------------------------------------------------------------
\* C24: the assertion of startend_to_ical never fails: whenever no invalid
\* property is recorded when it is reached, the resolved start zone is null
\* if and only if the resolved end zone is null; and an event whose start
\* zone and end-location zone differ in being floating has the timeZone of
\* that location recorded as invalid.

\* the zone that the timeZone of the event resolves to
StartZone ==
    LET timeZone == json_object_get(obj, "timeZone")
    IN IF json_is_string(timeZone) THEN tz_from_tzid(timeZone) ELSE NULL

\* the timeZone of the location that gives the end zone
EndLocationTimeZone ==
    json_object_get(
        json_object_get(obj, "locations").o[startend_endzoneid(obj).s],
        "timeZone")

EndZone ==
    IF json_is_string(EndLocationTimeZone)
    THEN tz_from_tzid(EndLocationTimeZone) ELSE NULL

C24_NotAborted ==
    /\ pc = "toical" => ~context.aborted
    /\ pc = "crashed" =>
          \A now \in Clock : ~jmapical_toical(obj, jerr, now).ctx.aborted

C24_MixedZonesInvalid ==
    (pc = "toical" /\ startend_endzoneid(obj) # NULL
       /\ (StartZone = NULL) # (EndZone = NULL))
        => \E i \in DOMAIN context.invalid :
              context.invalid[i]
                = "locations/" \o startend_endzoneid(obj).s \o "/timeZone"

C24_AssertionHolds == C24_NotAborted /\ C24_MixedZonesInvalid

\* the assertion was reached with the zones of the start and of an end
\* location
C24_Witness ==
    /\ pc = "toical" /\ context.invalid = <<>>
    /\ startend_endzoneid(obj) # NULL
    /\ StartZone # NULL /\ EndZone # NULL /\ StartZone # EndZone
    /\ json_object_get(obj, "recurrenceOverrides") # NULL

\* a floating start with an end location in a zone was rejected
C24_MixedRejected ==
    /\ pc = "toical" /\ startend_endzoneid(obj) # NULL
    /\ StartZone = NULL /\ EndZone # NULL
    /\ context.invalid # <<>>

----------------------------------------------------------------------------
\* C25: after a to_ical conversion that recorded no invalid property the
\* VEVENT has exactly one DTSTART and exactly one of DTEND and DURATION; it
\* has the DTEND exactly when the resolved end zone differs from the start
\* zone, and the X-JMAP-ID of that DTEND is the id of the first location
\* with rel "end" and a timeZone.

\* the VEVENT of the event in the tree that was made
MainVEvent == vcalendar.comps[1]

CountOf(name) == Len(icalcomponent_get_properties(MainVEvent, name))

\* the end zone: that of the end location, the start zone without one
ResolvedEndZone ==
    IF startend_endzoneid(obj) = NULL THEN StartZone ELSE EndZone

Converted == pc = "toical" /\ vcalendar # NULL /\ context.invalid = <<>>

C25_StartEnd ==
    Converted =>
        /\ MainVEvent.kind = "VEVENT"
        /\ CountOf("DTSTART") = 1
        /\ CountOf("DTEND") + CountOf("DURATION") = 1
        /\ CountOf("DTEND") = 1 <=> ResolvedEndZone # StartZone
        /\ CountOf("DTEND") = 1 =>
              get_icalxparam_value(
                  icalcomponent_get_first_property(MainVEvent, "DTEND"),
                  "X-JMAP-ID") = startend_endzoneid(obj)

\* a VEVENT with a DTEND was made
C25_Witness ==
    /\ Converted /\ CountOf("DTEND") = 1
    /\ startend_endzoneid(obj) = json_string("loc1")

\* a VEVENT with a DURATION was made of an event with an end location
C25_SameZone ==
    /\ Converted /\ CountOf("DURATION") = 1
    /\ startend_endzoneid(obj) # NULL

----------------------------------------------------------------------------
\* C26: in to_jmap a VALARM that has a RELATED-TO with a non-empty value
\* and RELTYPE=SNOOZE never yields an alert of its own, a VALARM with
\* ACTION=NONE yields no alert, an alert has a snoozed value if and only if
\* some snooze VALARM names the UID of the alert's VALARM and has an
\* absolute TRIGGER time, and a snooze that names no primary VALARM
\* contributes nothing.

\* the VALARMs of the VEVENT
ValarmsOf == SelectSeq(vcalendar.comps[1].comps, LAMBDA a : a.kind = "VALARM")

IsSnoozeValarm(a) ==
    LET prop == icalcomponent_get_first_property(a, "RELATED-TO")
    IN /\ prop # NULL
       /\ prop.val.s # ""
       /\ icalproperty_get_first_parameter(prop, "RELTYPE") = json_string("SNOOZE")

IsNoneValarm(a) == icalcomponent_get_text(a, "ACTION") = json_string("NONE")

HasTimeTrigger(a) ==
    LET prop == icalcomponent_get_first_property(a, "TRIGGER")
    IN prop # NULL /\ ~icaltime_is_null_time(prop.val.time)

\* the snooze VALARMs that name the uid
SnoozesOf(uid) ==
    SelectSeq(ValarmsOf,
              LAMBDA a : IsSnoozeValarm(a)
                         /\ icalcomponent_get_text(a, "RELATED-TO") = json_string(uid))

\* the ids of the alerts of the event
AlertKeys ==
    IF JNOTNULL(json_object_get(jsevent, "alerts"))
    THEN DOMAIN json_object_get(jsevent, "alerts").o ELSE {}

ValarmsConverted == pc = "tojmap" /\ jsevent # NULL /\ obj = NULL

\* the alerts are those of the VALARMs that are no snooze and have an
\* ACTION other than NONE
C26_AlertsOfPrimaries ==
    ValarmsConverted =>
        AlertKeys = { icalcomponent_get_uid(ValarmsOf[i]).s :
                        i \in { j \in DOMAIN ValarmsOf :
                                  /\ ~IsSnoozeValarm(ValarmsOf[j])
                                  /\ ~IsNoneValarm(ValarmsOf[j]) } }

C26_SnoozedIffSomeSnooze ==
    ValarmsConverted =>
        \A id \in AlertKeys :
            "snoozed" \in DOMAIN json_object_get(jsevent, "alerts").o[id].o
              <=> \E i \in DOMAIN SnoozesOf(id) : HasTimeTrigger(SnoozesOf(id)[i])

LiveSnoozesOf(uid) == SelectSeq(SnoozesOf(uid), LAMBDA a : ~IsNoneValarm(a))

C26_SnoozedIffLastSnooze ==
    ValarmsConverted =>
        \A id \in AlertKeys :
            "snoozed" \in DOMAIN json_object_get(jsevent, "alerts").o[id].o
              <=> /\ LiveSnoozesOf(id) # <<>>
                  /\ HasTimeTrigger(LiveSnoozesOf(id)[Len(LiveSnoozesOf(id))])

----------------------------------------------------------------------------
\* C27: in to_ical every location whose timeZone is a string that names no
\* known time zone records an invalid property, a location with rel "end"
\* on an event with a floating start included; a location with no property
\* or with only rel records the invalid property locations/<id>; and an
\* entry of linkIds that names no key of links records an invalid property.

\* the locations of the event, the empty set when it has none
LocationsOf ==
    IF JNOTNULL(json_object_get(obj, "locations"))
    THEN DOMAIN json_object_get(obj, "locations").o ELSE {}

LocationOf(id) == json_object_get(obj, "locations").o[id]

\* whether an invalid property is recorded at the path or below it
InvalidUnder(path) ==
    \E i \in DOMAIN context.invalid :
        \/ context.invalid[i] = path
        \/ /\ Len(context.invalid[i]) > Len(path)
           /\ SubSeq(context.invalid[i], 1, Len(path) + 1) = path \o "/"

HasUnknownZone(loc) ==
    /\ json_is_string(json_object_get(loc, "timeZone"))
    /\ tz_from_tzid(json_object_get(loc, "timeZone")) = NULL

C27_UnknownZone ==
    pc = "toical" =>
        \A id \in LocationsOf :
            HasUnknownZone(LocationOf(id)) => InvalidUnder("locations/" \o id)

C27_NoProperty ==
    pc = "toical" =>
        \A id \in LocationsOf :
            (DOMAIN LocationOf(id).o) \subseteq {"rel"}
              => \E i \in DOMAIN context.invalid :
                    context.invalid[i] = "locations/" \o id

C27_LinkIds ==
    pc = "toical" =>
        \A id \in LocationsOf :
            LET linkIds == json_object_get(LocationOf(id), "linkIds")
            IN json_is_object(linkIds) =>
                 \A k \in DOMAIN linkIds.o :
                     json_object_get(json_object_get(obj, "links"), k) = NULL
                       => InvalidUnder("locations/" \o id \o "/linkIds/" \o k)

C27_LocationsValidated == C27_UnknownZone /\ C27_NoProperty /\ C27_LinkIds

\* the unknown zone of an end location of an event with a zone is recorded
C27_EndZoneRejected ==
    /\ pc = "toical" /\ StartZone # NULL
    /\ "end1" \in LocationsOf /\ startend_endzoneid(obj) = json_string("end1")
    /\ HasUnknownZone(LocationOf("end1"))
    /\ InvalidUnder("locations/end1")

\* the unknown zone of an end location that is left unrecorded
UnknownEndZoneKept(id) ==
    /\ pc = "toical" /\ id \in LocationsOf
    /\ HasUnknownZone(LocationOf(id))
    /\ ~InvalidUnder("locations/" \o id)

C27_UnknownOnlyAtEnd ==
    \A id \in {"loc1", "end1"} :
        UnknownEndZoneKept(id) => location_is_endtimezone(LocationOf(id))

----------------------------------------------------------------------------
\* C28: in to_jmap overrides_from_ical records a patch only for a sibling
\* VEVENT that has the UID of the master and a RECURRENCE-ID: a sibling
\* with the UID of the master and no RECURRENCE-ID, and a sibling with
\* another UID, add no entry to recurrenceOverrides.

\* the positions of the VEVENTs beside the one that is converted
Siblings ==
    { xi \in DOMAIN vcalendar.comps :
        /\ xi # tojmap_todo(vcalendar)[1]
        /\ vcalendar.comps[xi].kind = "VEVENT" }

HasMasterUid(xi) ==
    icalcomponent_get_uid(vcalendar.comps[xi]) = icalcomponent_get_uid(FirstVEvent)

HasRecurrenceId(xi) ==
    icalcomponent_get_first_property(vcalendar.comps[xi], "RECURRENCE-ID") # NULL

\* the keys of recurrenceOverrides, the empty set when there is none
OverrideKeysOf ==
    IF JNOTNULL(json_object_get(jsevent, "recurrenceOverrides"))
    THEN DOMAIN json_object_get(jsevent, "recurrenceOverrides").o ELSE {}

\* an event was made of a VEVENT that has a UID, an RDATE or EXDATE it
\* has none
MasterConverted ==
    /\ pc = "tojmap" /\ jsevent # NULL /\ obj = NULL
    /\ FirstVEvent # NULL
    /\ icalcomponent_get_uid(FirstVEvent) # NULL

C28_OnlyExceptions ==
    MasterConverted =>
        OverrideKeysOf
          = { localdate_from_icaltime_r(
                  icalcomponent_get_recurrenceid(vcalendar.comps[xi])) :
                xi \in { x \in Siblings : HasMasterUid(x) /\ HasRecurrenceId(x) } }

\* a sibling with another UID adds no entry
C28_OtherUidIgnored ==
    (MasterConverted /\ \A xi \in Siblings : ~HasMasterUid(xi))
        => OverrideKeysOf = {}

\* the siblings with the UID of the master have a RECURRENCE-ID, all
C28_AmongExceptions ==
    (MasterConverted
       /\ \A xi \in Siblings : HasMasterUid(xi) => HasRecurrenceId(xi))
        => OverrideKeysOf
             = { localdate_from_icaltime_r(
                     icalcomponent_get_recurrenceid(vcalendar.comps[xi])) :
                   xi \in { x \in Siblings : HasMasterUid(x) } }

\* an entry for a sibling that has no RECURRENCE-ID
C28_MainSiblingRecorded ==
    /\ MasterConverted
    /\ \E xi \in Siblings : HasMasterUid(xi) /\ ~HasRecurrenceId(xi)
    /\ OverrideKeysOf # {}

----------------------------------------------------------------------------
\* the recurrenceOverrides of the event that was converted, when they are
\* an object
OverridesObject ==
    IF pc = "toical" /\ obj # NULL /\ json_is_object(obj)
       /\ json_object_get(obj, "recurrenceOverrides") # NULL
       /\ json_is_object(json_object_get(obj, "recurrenceOverrides"))
    THEN json_object_get(obj, "recurrenceOverrides")
    ELSE json_object(<<>>)

\* the paths that to_ical records for the event
InvalidOf(event) == Range(jmapical_toical(event, NULL, Stamp1).ctx.invalid)

\* the paths of ps that lie below the path of the override of key k
BelowOverride(ps, k) ==
    LET path == "recurrenceOverrides/" \o json_pointer_encode(k) \o "/"
    IN { p \in ps : Len(p) > Len(path) /\ SubSeq(p, 1, Len(path)) = path }

\* the paths that are recorded below the override of key k when it is the
\* only override of the event: the paths inside its exception, each with the
\* prefix of the override
AloneBelowOverride(k) ==
    BelowOverride(
        InvalidOf(json_object_set(
            obj, "recurrenceOverrides",
            json_object([x \in {k} |-> OverridesObject.o[k]]))),
        k)

\* C29: every invalid property raised while the exception of the override
\* of key k is converted is reported as recurrenceOverrides/<k>/<path inside
\* the exception>, whatever overrides were converted before it, and nothing
\* else is reported below the path of an override: the paths below the
\* override of k are those that are reported when k is the only override,
\* and no path lies below two overrides.
C29_OverridePaths ==
    \A k \in DOMAIN OverridesObject.o :
        /\ BelowOverride(Range(context.invalid), k) = AloneBelowOverride(k)
        /\ \A p \in Range(context.invalid) :
              Len(p) > 20 /\ SubSeq(p, 1, 20) = "recurrenceOverrides/"
                 => \E x \in DOMAIN OverridesObject.o :
                       \/ p = "recurrenceOverrides/" \o json_pointer_encode(x)
                       \/ p \in BelowOverride(Range(context.invalid), x)
                          /\ BelowOverride({p}, x) \subseteq AloneBelowOverride(x)

\* the paths are as stated where no override is left without endprop
C29_WhereBalanced ==
    ~HasIgnoredOverride(obj) => C29_OverridePaths

\* an exception that raises an invalid property after an override that was
\* left without endprop
C29_AfterIgnored ==
    /\ pc = "toical"
    /\ HasIgnoredOverride(obj)
    /\ \E k \in DOMAIN OverridesObject.o : AloneBelowOverride(k) # {}

\* an exception that raises an invalid property, reported below its key
C29_Reported ==
    /\ pc = "toical"
    /\ ~HasIgnoredOverride(obj)
    /\ \E k \in DOMAIN OverridesObject.o :
          /\ AloneBelowOverride(k) # {}
          /\ BelowOverride(Range(context.invalid), k) = AloneBelowOverride(k)

----------------------------------------------------------------------------
\* C30: jmapical_toical returns no tree whenever an invalid property was
\* recorded during the conversion, with an error struct of the caller and
\* without one.
C30_NoTreeWhenInvalid ==
    (pc = "toical" /\ have_invalid_props(context)) => vcalendar = NULL

\* with an error struct no tree is returned when a property is invalid
C30_WithErrNoTree ==
    (pc = "toical" /\ have_invalid_props(context) /\ jerr # NULL)
        => vcalendar = NULL

\* without an error struct a tree is returned whenever the event has a uid
C30_WithoutErrTree ==
    (pc = "toical" /\ jerr = NULL /\ context.uid # NULL) => vcalendar # NULL

\* a tree that is returned although a property was recorded as invalid
C30_TreeOfInvalidEvent ==
    /\ pc = "toical"
    /\ jerr = NULL
    /\ have_invalid_props(context)
    /\ vcalendar # NULL

====
